---- MODULE Spec2Model ----
(***************************************************************************)
(* cron8n: local manifests and registry, the n8n REST client, and the      *)
(* deploy / archive commands of the CLI and of the web UI.                 *)
(*                                                                         *)
(*   SpecRegistry  the registry store (src/config/registry.ts)             *)
(*   SpecList      N8nClient.listWorkflows against a paginating server     *)
(*   SpecTags      N8nClient.addTagsToWorkflow against the tag endpoints   *)
(*   SpecSchedule  the schedule of one workflow in its manifest and in its *)
(*                 trigger node, through create, import and edit           *)
(*   SpecSlug      the slug a created or imported workflow gets            *)
(*   SpecAuth      the stored credentials: login, logout, getAuth          *)
(*   SpecImport    cron import into a project with manifests               *)
(*   SpecLoad      loadManifest and loadAllManifests on a directory with   *)
(*                 damaged manifest files                                  *)
(*   Spec          one project: create, deploy and archive through the     *)
(*                 CLI and the web UI, against the n8n server              *)
(***************************************************************************)
EXTENDS Integers, Sequences, FiniteSets, TLC

(* ------------------------------------------------------------------ *)
(* Bounds and value domains                                            *)
(* ------------------------------------------------------------------ *)
MaxClock == 2
MaxEntries == 2
MaxRemote == 3        \* workflows on the server
MaxLimit == 2         \* the largest `limit` option a caller passes
DefaultPageSize == 2  \* the server's page size when no limit is sent
MaxCreated == 2       \* workflows the project's deploys create on the server

\* JavaScript undefined: an optional field that is absent
NoValue == "undefined"
\* an absent timestamp; getISOTimestamp never yields it
NoTime == 0
\* an absent (or empty, falsy) workflow id; the server's ids are 1, 2, ...
NoId == 0
\* options.limit absent (a falsy limit); a given limit is 1..MaxLimit
NoLimit == 0
\* nextCursor null or absent; a cursor token is the position the next page starts at
NoCursor == 0

Slugs == {"a", "b"}
ProjectPaths == {"/p", "/q"}
\* ids of remote workflows as the registry calls name them
WorkflowIds == {1, 2}
\* the (slug, projectPath) pairs the registry calls are made with: one slug in
\* two projects, and two slugs in one project
Identities == {<<"a", "/p">>, <<"a", "/q">>, <<"b", "/p">>}

VARIABLES
    now,        \* the wall clock read by getISOTimestamp
    registry,   \* registry.json: the `workflows` array
    call,       \* the last registry call: operation and outcome
    remote,     \* the n8n server: its workflows, in listing order
    nextId,     \* the n8n server: the id the next created workflow gets
    remoteTags, \* the n8n server: its tags, in listing order
    lw,         \* the listWorkflows call in progress, with its request log
    tg,         \* the last addTagsToWorkflow call: arguments and outcome
    manifests,  \* workflows/<slug>.cron8n.json of the project, by slug
    workflowFiles, \* the slugs that have a workflows/<slug>.json
    archived,   \* workflows/archived/: the archived manifests, by slug and time
    auth,       \* whether config.json holds credentials
    cli,        \* the CLI command that is running, and how far it got
    lastOn,     \* the last command that finished: which, on which slug, how
    sched,      \* one workflow's schedule: in the manifest and in the trigger node
    sl,         \* the last manifest written by create or import: name and slug
    config,     \* ~/.cron8n/config.json as it is on disk
    authLog,    \* the last login or logout: what was given, what came of it
    imp,        \* the last cron import: its arguments, its outcome, the files before
    ld,         \* a workflows directory as found, and the last load made on it
    rfile,      \* registry.json as a file: what is on disk, and the last call on it
    parsed,     \* the last parseCron call: its arguments, the time, its result
    tpl,        \* the last workflow made from a template, and what it was made from
    web,        \* POST /api/workflows: the requests received, each at its await
    race,       \* the upsertRegistryEntry calls in progress: what each loaded
    arc         \* cron archive, step by step: its arguments and the step it is at

\* the state of the components that are specified on their own
further == <<rfile, parsed, tpl, web, race, arc>>
units == <<sched, sl, config, authLog, imp, ld, further>>
local == <<manifests, workflowFiles, archived, auth, cli, lastOn, units>>
vars == <<now, registry, call, remote, nextId, remoteTags, lw, tg,
          manifests, workflowFiles, archived, auth, cli, lastOn, sched, sl,
          config, authLog, imp, ld, rfile, parsed,
          tpl, web, race, arc>>

\* what each component leaves alone
outsideRegistry == <<remote, nextId, remoteTags, lw, tg, local>>
outsideList == <<now, registry, call, remoteTags, tg, local>>
outsideTags == <<now, registry, call, lw, local>>
outsideProject == <<call, lw, tg, units>>
project == <<now, registry, call, remote, nextId, remoteTags, lw, tg,
             manifests, workflowFiles, archived, auth, cli, lastOn>>
outsideSchedule == <<project, sl, config, authLog, imp, ld, further>>
outsideSlug == <<project, sched, config, authLog, imp, ld, further>>
outsideAuth == <<project, sched, sl, imp, ld, further>>
outsideImport == <<now, call, lw, tg, archived, auth, cli, lastOn,
                   sched, sl, config, authLog, ld, further>>
outsideLoad == <<project, sched, sl, config, authLog, imp, further>>
firstUnits == <<sched, sl, config, authLog, imp, ld>>

(* ------------------------------------------------------------------ *)
(* utils/time.ts                                                       *)
(* ------------------------------------------------------------------ *)
\* new Date().toISOString(): the clock as a (never empty) timestamp
getISOTimestamp == now

(* ------------------------------------------------------------------ *)
(* workflows/manifest.ts: paths                                        *)
(* ------------------------------------------------------------------ *)
\* join(basePath, 'workflows', `${slug}.cron8n.json`)
getManifestPath(slug, basePath) == <<basePath, "workflows", slug, ".cron8n.json">>

(* ------------------------------------------------------------------ *)
(* config/registry.ts                                                  *)
(* ------------------------------------------------------------------ *)
SameIdentity(w, slug, projectPath) ==
    w.slug = slug /\ w.projectPath = projectPath

\* Array.prototype.findIndex: first matching index, 0 for "not found" (-1)
FindIndex(workflows, slug, projectPath) ==
    LET hits == {i \in 1..Len(workflows) : SameIdentity(workflows[i], slug, projectPath)}
    IN  IF hits = {} THEN 0 ELSE CHOOSE i \in hits : \A j \in hits : i <= j

\* Array.prototype.filter
RECURSIVE FilterOut(_, _, _)
FilterOut(workflows, slug, projectPath) ==
    IF workflows = <<>> THEN <<>>
    ELSE LET rest == FilterOut(Tail(workflows), slug, projectPath)
         IN  IF SameIdentity(Head(workflows), slug, projectPath)
             THEN rest
             ELSE <<Head(workflows)>> \o rest

\* mutant: upsert that never looks for the existing entry
UpsertAlwaysAppend(workflows, entry, ts) ==
    Append(workflows, [slug |-> entry.slug, projectPath |-> entry.projectPath,
                       manifestPath |-> entry.manifestPath,
                       workflowId |-> entry.workflowId, lastSyncedAt |-> ts])

\* upsertRegistryEntry, lines 70-83: the array that is saved
UpsertEntry(workflows, entry, ts) ==
    LET existingIndex == FindIndex(workflows, entry.slug, entry.projectPath)
        newEntry == [slug |-> entry.slug, projectPath |-> entry.projectPath,
                     manifestPath |-> entry.manifestPath,
                     workflowId |-> entry.workflowId, lastSyncedAt |-> ts]
    IN  IF existingIndex > 0
        THEN [workflows EXCEPT ![existingIndex] = newEntry]
        ELSE Append(workflows, newEntry)

\* mutant: updateWorkflowId that falls back to creating the entry
SetWorkflowIdOrCreate(workflows, slug, projectPath, workflowId, ts) ==
    LET i == FindIndex(workflows, slug, projectPath)
    IN  IF i > 0
        THEN [workflows EXCEPT ![i].workflowId = workflowId, ![i].lastSyncedAt = ts]
        ELSE Append(workflows, [slug |-> slug, projectPath |-> projectPath,
                                manifestPath |-> getManifestPath(slug, projectPath),
                                workflowId |-> workflowId, lastSyncedAt |-> ts])

\* updateWorkflowId, lines 96-106: the array after the call
SetWorkflowId(workflows, slug, projectPath, workflowId, ts) ==
    LET i == FindIndex(workflows, slug, projectPath)
    IN  IF i > 0
        THEN [workflows EXCEPT ![i].workflowId = workflowId, ![i].lastSyncedAt = ts]
        ELSE workflows

\* mutant: remove that drops every entry of the slug, whatever its project
RemoveBySlugOnly(workflows, slug, projectPath) ==
    SelectSeq(workflows, LAMBDA w : w.slug # slug)

\* removeRegistryEntry, lines 116-118: the filtered array
RemoveEntry(workflows, slug, projectPath) ==
    FilterOut(workflows, slug, projectPath)

NoCall == [op |-> "none", found |-> FALSE, ret |-> NoValue, wrote |-> FALSE]

Tick ==
    /\ now < MaxClock
    /\ now' = now + 1
    /\ UNCHANGED <<registry, call>>
    /\ UNCHANGED outsideRegistry

upsertRegistryEntry(entry) ==
    LET found == FindIndex(registry, entry.slug, entry.projectPath) > 0
    IN  /\ found \/ Len(registry) < MaxEntries
        /\ registry' = UpsertEntry(registry, entry, getISOTimestamp)
        /\ call' = [op |-> "upsert",
                    found |-> found, ret |-> NoValue, wrote |-> TRUE]
        /\ UNCHANGED now
        /\ UNCHANGED outsideRegistry

updateWorkflowId(slug, projectPath, workflowId) ==
    LET found == FindIndex(registry, slug, projectPath) > 0
    IN  /\ registry' = SetWorkflowId(registry, slug, projectPath, workflowId, getISOTimestamp)
        /\ call' = [op |-> "updateWorkflowId",
                    found |-> found, ret |-> NoValue, wrote |-> found]
        /\ UNCHANGED now
        /\ UNCHANGED outsideRegistry

removeRegistryEntry(slug, projectPath) ==
    LET filtered == RemoveEntry(registry, slug, projectPath)
        removed == Len(filtered) < Len(registry)
    IN  /\ registry' = IF removed THEN filtered ELSE registry
        /\ call' = [op |-> "remove",
                    found |-> FindIndex(registry, slug, projectPath) > 0,
                    ret |-> IF removed THEN "true" ELSE "false", wrote |-> removed]
        /\ UNCHANGED now
        /\ UNCHANGED outsideRegistry

UpsertInputs ==
    {[slug |-> id[1], projectPath |-> id[2],
      manifestPath |-> getManifestPath(id[1], id[2]), workflowId |-> w] :
        id \in Identities, w \in {NoId, 1}}

RegistryUpsert == \E entry \in UpsertInputs : upsertRegistryEntry(entry)
RegistryUpdateId ==
    \E id \in Identities, workflowId \in WorkflowIds :
        updateWorkflowId(id[1], id[2], workflowId)
RegistryRemove ==
    \E id \in Identities : removeRegistryEntry(id[1], id[2])

NoTagCall == [op |-> "none", id |-> NoId, names |-> <<>>, ok |-> FALSE,
              lists |-> 0, creates |-> 0]

IdleCli == [pc |-> "idle"]

NoCommand == [op |-> "none", slug |-> NoValue, ok |-> FALSE, id |-> NoId,
              deleteRemote |-> FALSE]

IdleList == [pc |-> "idle", limit |-> NoLimit, cursor |-> NoCursor,
             workflows |-> <<>>, sent |-> <<>>, got |-> <<>>, pages |-> <<>>]

\* no workflow file and no manifest yet
NoSchedule == [exists |-> FALSE]

\* a workflow name of which no manifest is written yet
Unwritten(name) == [by |-> "none", name |-> name, slug |-> <<>>, existed |-> FALSE]
NoSlug == Unwritten(<<>>)

\* `{}`: a config without credentials; also getAuth's null
NoCredentials == [baseUrl |-> NoValue, authMode |-> NoValue, secret |-> NoValue]

NoLogin == [op |-> "none", given |-> NoCredentials, outcome |-> "none",
            saved |-> FALSE, before |-> NoCredentials]

\* no config file yet
InitAuthUnit ==
    /\ config = NoCredentials
    /\ authLog = NoLogin

NoImport == [op |-> "none"]

\* nothing loaded from the directory `dir` yet
Unloaded(dir) == [dir |-> dir, op |-> "none", slug |-> NoValue, ok |-> FALSE,
                  result |-> <<>>]
\* no workflows directory
NoDirectory == Unloaded([slug \in {} |-> NoValue])

\* registry.json not looked at yet
NoFileCall == [kind |-> "valid", op |-> "none", was |-> "valid", result |-> <<>>]

\* cron archive not run yet
NoArchive == [pc |-> "idle", slug |-> NoValue]

\* the callers of upsertRegistryEntry, none of which has called yet
Callers == {1, 2}
NoCallers == [p \in Callers |-> [pc |-> "idle"]]

\* no request received by the web UI's server
NoRequests == <<>>

\* no workflow made from a template yet
NoTemplate == [made |-> FALSE]

\* parseCron not called yet
NoParse == [op |-> "none"]

InitFurther ==
    /\ rfile = NoFileCall
    /\ parsed = NoParse
    /\ tpl = NoTemplate
    /\ web = NoRequests
    /\ race = NoCallers
    /\ arc = NoArchive

InitUnits ==
    /\ sched = NoSchedule
    /\ sl = NoSlug
    /\ InitAuthUnit
    /\ imp = NoImport
    /\ ld = NoDirectory
    /\ InitFurther

\* an empty project, nobody logged in, no command running
InitLocal ==
    /\ manifests = [s \in {} |-> NoCommand]
    /\ workflowFiles = {}
    /\ archived = [k \in {} |-> NoCommand]
    /\ auth = FALSE
    /\ cli = IdleCli
    /\ lastOn = NoCommand

\* an empty registry and an empty server, no call made
InitServer ==
    /\ now = 1
    /\ registry = <<>>
    /\ call = NoCall
    /\ remote = <<>>
    /\ nextId = 1
    /\ remoteTags = <<>>
    /\ lw = IdleList
    /\ tg = NoTagCall

InitRegistry ==
    /\ InitServer
    /\ InitLocal
    /\ InitUnits

NextRegistry ==
    \/ Tick
    \/ RegistryUpsert
    \/ RegistryUpdateId
    \/ RegistryRemove

SpecRegistry == InitRegistry /\ [][NextRegistry]_vars

(* ------------------------------------------------------------------ *)
(* Registry properties                                                 *)
(* ------------------------------------------------------------------ *)
UniqueIdentity(workflows) ==
    \A i, j \in 1..Len(workflows) :
        i # j => ~SameIdentity(workflows[i], workflows[j].slug, workflows[j].projectPath)

HasIdentity(workflows, slug, projectPath) ==
    \E i \in 1..Len(workflows) : SameIdentity(workflows[i], slug, projectPath)

\* the position of the one entry with this identity
IndexOf(workflows, slug, projectPath) ==
    CHOOSE i \in 1..Len(workflows) : SameIdentity(workflows[i], slug, projectPath)

HoldsFields(w, entry) ==
    /\ w.slug = entry.slug
    /\ w.projectPath = entry.projectPath
    /\ w.manifestPath = entry.manifestPath
    /\ w.workflowId = entry.workflowId
    /\ w.lastSyncedAt # NoTime

UpsertPost(entry) ==
    IF HasIdentity(registry, entry.slug, entry.projectPath)
    THEN LET i == IndexOf(registry, entry.slug, entry.projectPath)
         IN  /\ Len(registry') = Len(registry)
             /\ HoldsFields(registry'[i], entry)
             /\ \A j \in 1..Len(registry) : j # i => registry'[j] = registry[j]
    ELSE /\ Len(registry') = Len(registry) + 1
         /\ SubSeq(registry', 1, Len(registry)) = registry
         /\ HoldsFields(registry'[Len(registry')], entry)

\* C4: from the empty registry, no two entries ever share (slug, projectPath);
\* an upsert of a present identity replaces that entry in place with the
\* call's fields (count unchanged), an upsert of a new identity appends one
\* entry, and the upserted entry always has a non-empty lastSyncedAt.
C4_UpsertKeepsIdentityUnique ==
    /\ [](UniqueIdentity(registry))
    /\ [][\A entry \in UpsertInputs :
            upsertRegistryEntry(entry) => UpsertPost(entry)]_vars

C4_Witness ==
    /\ call.op = "upsert"
    /\ call.found
    /\ Len(registry) = 2
    /\ registry[1].lastSyncedAt # registry[2].lastSyncedAt

RemovePost(slug, projectPath) ==
    IF HasIdentity(registry, slug, projectPath)
    THEN LET i == IndexOf(registry, slug, projectPath)
         IN  /\ call'.ret = "true"
             /\ Len(registry') = Len(registry) - 1
             /\ registry' = SubSeq(registry, 1, i - 1)
                              \o SubSeq(registry, i + 1, Len(registry))
    ELSE /\ call'.ret = "false"
         /\ ~call'.wrote
         /\ registry' = registry

\* C5: removeRegistryEntry of an absent identity returns false, writes nothing
\* and leaves the registry unchanged; of a present identity it returns true,
\* the count drops by exactly one and the other entries keep value and order.
C5_RemoveFrame ==
    [][\A id \in Identities :
         removeRegistryEntry(id[1], id[2]) => RemovePost(id[1], id[2])]_vars

C5_Witness ==
    /\ call.op = "remove"
    /\ call.ret = "true"
    /\ Len(registry) = 1

UpdateIdPost(slug, projectPath, workflowId) ==
    IF HasIdentity(registry, slug, projectPath)
    THEN LET i == IndexOf(registry, slug, projectPath)
         IN  /\ Len(registry') = Len(registry)
             /\ registry'[i].slug = registry[i].slug
             /\ registry'[i].projectPath = registry[i].projectPath
             /\ registry'[i].manifestPath = registry[i].manifestPath
             /\ registry'[i].workflowId = workflowId
             /\ registry'[i].lastSyncedAt = now
             /\ \A j \in 1..Len(registry) : j # i => registry'[j] = registry[j]
    ELSE /\ registry' = registry
         /\ ~call'.wrote

\* C6: updateWorkflowId of an absent identity changes nothing and creates no
\* entry; of a present identity it changes only that entry's workflowId and
\* lastSyncedAt, every other entry and field staying as it was.
C6_UpdateWorkflowIdFrame ==
    [][\A id \in Identities, workflowId \in WorkflowIds :
         updateWorkflowId(id[1], id[2], workflowId)
            => UpdateIdPost(id[1], id[2], workflowId)]_vars

C6_Witness ==
    /\ call.op = "updateWorkflowId"
    /\ call.found
    /\ Len(registry) = 2
    /\ \E i \in 1..2 : registry[i].workflowId = 2

\* the absent case of C6 is reached as well
C6_AbsentReached ==
    call.op = "updateWorkflowId" /\ ~call.found /\ Len(registry) = 1

(* ------------------------------------------------------------------ *)
(* api/n8nClient.ts: listWorkflows                                     *)
(* ------------------------------------------------------------------ *)
Min(a, b) == IF a <= b THEN a ELSE b

\* JavaScript truthiness of an optional number / string
Truthy(x) == x # 0

\* GET /workflows?limit=&cursor= as the server answers it: one page of the
\* workflows from the cursor position on, and the cursor of the page after it
ListPage(workflows, limit, cursor) ==
    LET size  == IF limit # NoLimit THEN limit ELSE DefaultPageSize
        first == IF cursor # NoCursor THEN cursor ELSE 1
        last  == Min(first + size - 1, Len(workflows))
    IN  [data |-> SubSeq(workflows, first, last),
         nextCursor |-> IF last < Len(workflows) THEN last + 1 ELSE NoCursor]

\* mutant: the loop condition without the `if (options.limit) break`
LoopAgainIgnoringLimit(limit, cursor) == Truthy(cursor)

\* lines 172-174: `if (options.limit) break` then `while (cursor)`
LoopAgain(limit, cursor) ==
    IF Truthy(limit) THEN FALSE ELSE Truthy(cursor)

\* lines 149-150: the call starts with no workflows and options.cursor
ListStart ==
    /\ lw.pc = "idle"
    /\ \E limit \in {NoLimit} \cup 1..MaxLimit :
         lw' = [IdleList EXCEPT !.pc = "request", !.limit = limit]
    /\ UNCHANGED <<remote, nextId>>
    /\ UNCHANGED outsideList

\* lines 152-174: one iteration of the do-while loop, the request answered
ListRequest ==
    /\ lw.pc = "request"
    /\ LET response == ListPage(remote,
                                IF Truthy(lw.limit) THEN lw.limit ELSE NoLimit,
                                IF Truthy(lw.cursor) THEN lw.cursor ELSE NoCursor)
           cursor == response.nextCursor
       IN  lw' = [lw EXCEPT
                    !.workflows = lw.workflows \o response.data,
                    !.cursor = cursor,
                    !.sent = Append(lw.sent, lw.cursor),
                    !.got = Append(lw.got, response.nextCursor),
                    !.pages = Append(lw.pages, response.data),
                    !.pc = IF LoopAgain(lw.limit, cursor) THEN "request" ELSE "done"]
    /\ UNCHANGED <<remote, nextId>>
    /\ UNCHANGED outsideList

\* line 166: the request throws (network or API error); nothing is returned
ListRequestFails ==
    /\ lw.pc = "request"
    /\ lw' = [lw EXCEPT !.pc = "failed", !.workflows = <<>>]
    /\ UNCHANGED <<remote, nextId>>
    /\ UNCHANGED outsideList

\* line 176 / the throw: the call is over and its caller goes on
ListReturn ==
    /\ lw.pc \in {"done", "failed"}
    /\ lw' = IdleList
    /\ UNCHANGED <<remote, nextId>>
    /\ UNCHANGED outsideList

\* the server gains a workflow (created by any client) between two listings
RemoteGrows ==
    /\ lw.pc = "idle"
    /\ Len(remote) < MaxRemote
    /\ \E active \in BOOLEAN :
         remote' = Append(remote, [id |-> nextId, active |-> active, tags |-> {}])
    /\ nextId' = nextId + 1
    /\ UNCHANGED lw
    /\ UNCHANGED outsideList

InitList == InitRegistry

NextList ==
    \/ ListStart
    \/ ListRequest
    \/ ListRequestFails
    \/ ListReturn
    \/ RemoteGrows

SpecList == InitList /\ [][NextList]_vars

RECURSIVE Flatten(_)
Flatten(pages) ==
    IF pages = <<>> THEN <<>> ELSE Head(pages) \o Flatten(Tail(pages))

\* C7: a listWorkflows call without limit sends one request per page, each
\* request after the first carrying the cursor of the response before it,
\* stops at the first response without cursor and returns all pages in order
\* (the server's whole list); a call with a limit sends exactly one request
\* and returns that page alone, whatever cursor the response carried.
C7_ListPagination ==
    lw.pc = "done" =>
        /\ Len(lw.sent) = Len(lw.got)
        /\ lw.workflows = Flatten(lw.pages)
        /\ IF lw.limit = NoLimit
           THEN /\ lw.sent[1] = NoCursor
                /\ \A k \in 2..Len(lw.sent) : lw.sent[k] = lw.got[k - 1]
                /\ \A k \in 1..(Len(lw.got) - 1) : lw.got[k] # NoCursor
                /\ lw.got[Len(lw.got)] = NoCursor
                /\ lw.workflows = remote
           ELSE /\ Len(lw.sent) = 1
                /\ lw.workflows = SubSeq(remote, 1, Min(lw.limit, Len(remote)))

\* a call with limit 1 that returned one page although the server offered more
C7_Witness ==
    /\ lw.pc = "done"
    /\ lw.limit = 1
    /\ lw.got = <<2>>
    /\ Len(lw.workflows) = 1

\* a call without limit that followed a cursor over two pages
C7_TwoPagesReached ==
    /\ lw.pc = "done"
    /\ lw.limit = NoLimit
    /\ Len(lw.sent) = 2
    /\ Len(lw.workflows) = 3

(* ------------------------------------------------------------------ *)
(* Management tags (workflows/manifest.ts, workflows/discover.ts)      *)
(* ------------------------------------------------------------------ *)
\* a tag name `<prefix>:<rest>` is the pair of its two parts
CRON8N_MANAGED_TAG == <<"managed-by", "cron8n">>
CRON8N_SLUG_TAG_PREFIX == "cron8n"
\* a tag put on a workflow by someone else, outside cron8n
ForeignTag == <<"team", "ops">>

\* ['managed-by:cron8n', `cron8n:${slug}`]
createTags(slug) == <<CRON8N_MANAGED_TAG, <<CRON8N_SLUG_TAG_PREFIX, slug>> >>

ToSet(seq) == {seq[i] : i \in 1..Len(seq)}

(* ------------------------------------------------------------------ *)
(* The n8n server, as the client's requests see it                     *)
(* ------------------------------------------------------------------ *)
HasWorkflow(workflows, id) == \E i \in 1..Len(workflows) : workflows[i].id = id

WorkflowById(workflows, id) ==
    workflows[CHOOSE i \in 1..Len(workflows) : workflows[i].id = id]

\* PUT /workflows/:id/tags: the workflow's tags become exactly the ids sent
\* (a workflow's tags are kept as the set of their ids)
ServerSetTags(workflows, id, tagIds) ==
    [i \in 1..Len(workflows) |->
        IF workflows[i].id = id THEN [workflows[i] EXCEPT !.tags = tagIds]
        ELSE workflows[i]]

\* POST /tags: a new tag with a fresh id, listed after the others
ServerCreateTag(tags, name) == Append(tags, [id |-> Len(tags) + 1, name |-> name])

\* the names of a workflow's tags, as GET /workflows/:id reports them
TagNamesOf(workflow, tags) ==
    {t.name : t \in {u \in ToSet(tags) : u.id \in workflow.tags}}

(* ------------------------------------------------------------------ *)
(* api/n8nClient.ts: getOrCreateTag, addTagsToWorkflow                 *)
(* ------------------------------------------------------------------ *)
\* tags.find(t => t.name === name): position of the first match, 0 if none
FindTag(tags, name) ==
    LET hits == {i \in 1..Len(tags) : tags[i].name = name}
    IN  IF hits = {} THEN 0 ELSE CHOOSE i \in hits : \A j \in hits : i <= j

\* The run of one addTagsToWorkflow call: the requests sent so far (reqs), how
\* many of them listed or created tags, the server's tags, the ids collected.
\* failAt = k > 0 makes the k-th request of the call throw; 0: none does.
StartRun(tags) ==
    [ok |-> TRUE, reqs |-> 0, lists |-> 0, creates |-> 0, tags |-> tags, tagIds |-> <<>>]

\* mutant: one list request shared by all names of the call
GetOrCreateTagSharedList(run, name, failAt) ==
    IF ~run.ok THEN run
    ELSE LET listing == run.lists = 0
             r1 == IF listing THEN run.reqs + 1 ELSE run.reqs
             lists == IF listing THEN 1 ELSE run.lists
         IN  IF listing /\ r1 = failAt
             THEN [run EXCEPT !.ok = FALSE, !.reqs = r1, !.lists = lists]
             ELSE LET i == FindTag(run.tags, name)
                  IN  IF i > 0
                      THEN [run EXCEPT !.reqs = r1, !.lists = lists,
                                       !.tagIds = Append(run.tagIds, run.tags[i].id)]
                      ELSE IF r1 + 1 = failAt
                      THEN [run EXCEPT !.ok = FALSE, !.reqs = r1 + 1, !.lists = lists]
                      ELSE LET created == ServerCreateTag(run.tags, name)
                           IN  [run EXCEPT !.reqs = r1 + 1, !.lists = lists,
                                           !.creates = run.creates + 1,
                                           !.tags = created,
                                           !.tagIds = Append(run.tagIds,
                                                             created[Len(created)].id)]

\* getOrCreateTag, lines 253-258: list the tags, take the one of that name,
\* create it when there is none
GetOrCreateTag(run, name, failAt) ==
    IF ~run.ok THEN run
    ELSE LET r1 == run.reqs + 1
         IN  IF r1 = failAt
             THEN [run EXCEPT !.ok = FALSE, !.reqs = r1, !.lists = run.lists + 1]
             ELSE LET i == FindTag(run.tags, name)
                  IN  IF i > 0
                      THEN [run EXCEPT !.reqs = r1, !.lists = run.lists + 1,
                                       !.tagIds = Append(run.tagIds, run.tags[i].id)]
                      ELSE IF r1 + 1 = failAt
                      THEN [run EXCEPT !.ok = FALSE, !.reqs = r1 + 1,
                                       !.lists = run.lists + 1]
                      ELSE LET created == ServerCreateTag(run.tags, name)
                           IN  [run EXCEPT !.reqs = r1 + 1, !.lists = run.lists + 1,
                                           !.creates = run.creates + 1,
                                           !.tags = created,
                                           !.tagIds = Append(run.tagIds,
                                                             created[Len(created)].id)]

\* lines 273-277: `for (const name of tagNames)`
RECURSIVE GetOrCreateEach(_, _, _)
GetOrCreateEach(run, tagNames, failAt) ==
    IF tagNames = <<>> THEN run
    ELSE GetOrCreateEach(GetOrCreateTag(run, Head(tagNames), failAt),
                         Tail(tagNames), failAt)

\* mutant: the workflow's tags are replaced by the named ones
ReplaceTagIds(existingTagIds, tagIds) == ToSet(tagIds)

\* line 284: [...new Set([...existingTagIds, ...tagIds])]
MergeTagIds(existingTagIds, tagIds) == existingTagIds \cup ToSet(tagIds)

\* addTagsToWorkflow, lines 272-286, run against the server's workflows and
\* tags: whether it returned, the server afterwards, the requests it made
AddTagsToWorkflow(workflows, tags, workflowId, tagNames, failAt) ==
    LET run == GetOrCreateEach(StartRun(tags), tagNames, failAt)
        getFails == run.reqs + 1 = failAt \/ ~HasWorkflow(workflows, workflowId)
        putFails == run.reqs + 2 = failAt
    IN  IF ~run.ok \/ getFails \/ putFails
        THEN [ok |-> FALSE, workflows |-> workflows, tags |-> run.tags,
              lists |-> run.lists, creates |-> run.creates]
        ELSE LET existingTagIds == WorkflowById(workflows, workflowId).tags
                 allTagIds == MergeTagIds(existingTagIds, run.tagIds)
             IN  [ok |-> TRUE,
                  workflows |-> ServerSetTags(workflows, workflowId, allTagIds),
                  tags |-> run.tags,
                  lists |-> run.lists, creates |-> run.creates]

\* the most requests one call can make: list and create per name, get, put
MaxRequests(tagNames) == 2 * Len(tagNames) + 2

\* the names a call is made with: the two tags of a deploy, or one of them
TagNameLists == {createTags("a"), <<CRON8N_MANAGED_TAG>>}
\* the workflow ids a call is made with; the last one is not on the server
TaggedIds == {1, 2, 3}

addTagsToWorkflow(workflowId, tagNames, failAt) ==
    LET r == AddTagsToWorkflow(remote, remoteTags, workflowId, tagNames, failAt)
    IN  /\ remote' = r.workflows
        /\ remoteTags' = r.tags
        /\ tg' = [op |-> "addTags", id |-> workflowId, names |-> tagNames,
                  ok |-> r.ok, lists |-> r.lists, creates |-> r.creates]
        /\ UNCHANGED nextId
        /\ UNCHANGED outsideTags

TagsCall ==
    \E workflowId \in TaggedIds, tagNames \in TagNameLists :
        \E failAt \in 0..MaxRequests(tagNames) :
            addTagsToWorkflow(workflowId, tagNames, failAt)

\* someone tags a workflow in the n8n editor with a tag of their own
ForeignTagging ==
    /\ \E k \in 1..Len(remote) :
         LET tags == IF FindTag(remoteTags, ForeignTag) > 0 THEN remoteTags
                     ELSE ServerCreateTag(remoteTags, ForeignTag)
             tagId == tags[FindTag(tags, ForeignTag)].id
         IN  /\ tagId \notin remote[k].tags
             /\ remoteTags' = tags
             /\ remote' = ServerSetTags(remote, remote[k].id,
                                        remote[k].tags \cup {tagId})
    /\ tg' = NoTagCall
    /\ UNCHANGED nextId
    /\ UNCHANGED outsideTags

\* the server holds two workflows, not yet tagged, and no tag
InitTags ==
    /\ now = 1
    /\ registry = <<>>
    /\ call = NoCall
    /\ remote = <<[id |-> 1, active |-> FALSE, tags |-> {}],
                  [id |-> 2, active |-> TRUE, tags |-> {}]>>
    /\ nextId = 3
    /\ remoteTags = <<>>
    /\ lw = IdleList
    /\ tg = NoTagCall
    /\ InitLocal
    /\ InitUnits

NextTags ==
    \/ TagsCall
    \/ ForeignTagging

SpecTags == InitTags /\ [][NextTags]_vars

(* ------------------------------------------------------------------ *)
(* Tag properties                                                      *)
(* ------------------------------------------------------------------ *)
TagIdsNamed(tags, names) == {t.id : t \in {u \in ToSet(tags) : u.name \in ToSet(names)}}

TagsPost(workflowId, tagNames) ==
    LET namesBefore == {t.name : t \in ToSet(remoteTags)}
        missing == ToSet(tagNames) \ namesBefore
    IN  \* tags are created for the missing names only, one each
        /\ SubSeq(remoteTags', 1, Len(remoteTags)) = remoteTags
        /\ Len(remoteTags') <= Len(remoteTags) + Cardinality(missing)
        /\ \A k \in (Len(remoteTags) + 1)..Len(remoteTags') :
              remoteTags'[k].name \in missing
        /\ tg'.creates = Len(remoteTags') - Len(remoteTags)
        /\ \A i, j \in 1..Len(remoteTags') :
              i # j /\ remoteTags'[i].name \in ToSet(tagNames)
                 => remoteTags'[i].name # remoteTags'[j].name
        \* no workflow loses a tag, whether the call returned or threw
        /\ Len(remote') = Len(remote)
        /\ \A k \in 1..Len(remote) :
              /\ remote'[k].id = remote[k].id
              /\ remote[k].tags \subseteq remote'[k].tags
              /\ remote[k].id # workflowId => remote'[k] = remote[k]
        \* a call that returned has set the union
        /\ tg'.ok =>
              /\ HasWorkflow(remote, workflowId)
              /\ Cardinality(missing) = tg'.creates
              /\ WorkflowById(remote', workflowId).tags
                    = WorkflowById(remote, workflowId).tags
                        \cup TagIdsNamed(remoteTags', tagNames)
              /\ Cardinality(TagIdsNamed(remoteTags', tagNames))
                    = Cardinality(ToSet(tagNames))
        \* repeating a call changes nothing
        /\ (/\ tg'.ok
            /\ missing = {}
            /\ TagIdsNamed(remoteTags, tagNames)
                  \subseteq WorkflowById(remote, workflowId).tags)
              => remote' = remote /\ remoteTags' = remoteTags

\* C8: addTagsToWorkflow sets the workflow's tags to the union of the tags it
\* had and the tags named; it removes no tag, creates a tag only for a name
\* that no tag on the server has, and a repeated call changes nothing.
\* (every other step of SpecTags clears tg, so a step that leaves a call in
\* tg is that call)
C8_AddTagsIsUnion ==
    [][tg'.op = "addTags" => TagsPost(tg'.id, tg'.names)]_vars

\* a call that returned, on a workflow that keeps a foreign tag next to the
\* two management tags
C8_Witness ==
    /\ tg.op = "addTags"
    /\ tg.ok
    /\ Len(tg.names) = 2
    /\ HasWorkflow(remote, tg.id)
    /\ Cardinality(WorkflowById(remote, tg.id).tags) = 3
    /\ FindTag(remoteTags, ForeignTag) > 0
    /\ remoteTags[FindTag(remoteTags, ForeignTag)].id
          \in WorkflowById(remote, tg.id).tags

\* C9 as claimed: a call that returned has listed the tags exactly once
C9_OneListRequest ==
    (tg.op = "addTags" /\ tg.ok) => tg.lists = 1

\* C9, amended: addTagsToWorkflow lists the tags once per name given (each
\* getOrCreateTag call lists them again); a call that throws has listed them
\* at most that often.
C9_OneListRequestPerName ==
    tg.op = "addTags" =>
        /\ tg.lists <= Len(tg.names)
        /\ tg.ok => tg.lists = Len(tg.names)

\* a call for two names that both exist already, and still two list requests
C9_Witness ==
    /\ tg.op = "addTags"
    /\ tg.ok
    /\ Len(tg.names) = 2
    /\ tg.creates = 0
    /\ tg.lists = 2

(* ------------------------------------------------------------------ *)
(* workflows/manifest.ts                                               *)
(* ------------------------------------------------------------------ *)
\* getCwd(): the one project the commands of Spec run in
Project == "/p"
\* the workflows the commands of Spec are run on
ProjectSlugs == {"a"}

\* createManifest lines 54-70; updatedAt is no field of the schema and is
\* absent from a new manifest (edit and the web UI's deploy add it)
createManifest(slug, ts) ==
    [slug |-> slug, createdAt |-> ts, tags |-> createTags(slug),
     lastDeployedWorkflowId |-> NoId, lastDeployedAt |-> NoTime,
     updatedAt |-> NoTime]

\* loadManifest line 78, ManifestSchema.parse of a file that passes: a
\* z.object keeps the keys of the schema and strips the others
ManifestSchemaParse(data) == [data EXCEPT !.updatedAt = NoTime]

manifestExists(slug) == slug \in DOMAIN manifests

\* saveManifest: the file of manifest.slug is overwritten as a whole
SaveManifest(files, manifest) ==
    [t \in DOMAIN files \cup {manifest.slug} |->
        IF t = manifest.slug THEN manifest ELSE files[t]]

\* deleteFile / moveFile of the manifest
DeleteManifest(files, slug) == [t \in DOMAIN files \ {slug} |-> files[t]]

\* mutant: the deployment time is recorded, the workflow id is not
UpdateManifestDeploymentNoId(files, slug, workflowId, ts) ==
    SaveManifest(files, [ManifestSchemaParse(files[slug]) EXCEPT !.lastDeployedAt = ts])

\* updateManifestDeployment, lines 92-102: load, set the two fields, save
UpdateManifestDeployment(files, slug, workflowId, ts) ==
    SaveManifest(files, [ManifestSchemaParse(files[slug]) EXCEPT
                            !.lastDeployedWorkflowId = workflowId,
                            !.lastDeployedAt = ts])

(* ------------------------------------------------------------------ *)
(* workflows/discover.ts                                               *)
(* ------------------------------------------------------------------ *)
\* isCron8nManaged: some tag is the sentinel tag
isCron8nManaged(tagNames) == CRON8N_MANAGED_TAG \in tagNames

\* getCron8nSlug: the slug of a tag `cron8n:<slug>`; with several such tags
\* the first in the server's order, so any of them
ManagedSlugs(tagNames) ==
    {n[2] : n \in {m \in tagNames : m[1] = CRON8N_SLUG_TAG_PREFIX}}

\* analyzeWorkflow reports isManaged with managedSlug = slug
ManagedAs(workflow, tags, slug) ==
    /\ isCron8nManaged(TagNamesOf(workflow, tags))
    /\ ManagedSlugs(TagNamesOf(workflow, tags)) = {slug}

(* ------------------------------------------------------------------ *)
(* The n8n server: workflows                                           *)
(* ------------------------------------------------------------------ *)
\* POST /workflows: a new, inactive, untagged workflow with a fresh id
ServerCreate(workflows, id) ==
    Append(workflows, [id |-> id, active |-> FALSE, tags |-> {}])

\* POST /workflows/:id/activate and /deactivate
ServerSetActive(workflows, id, active) ==
    [i \in 1..Len(workflows) |->
        IF workflows[i].id = id THEN [workflows[i] EXCEPT !.active = active]
        ELSE workflows[i]]

\* DELETE /workflows/:id
ServerDelete(workflows, id) == SelectSeq(workflows, LAMBDA w : w.id # id)

(* ------------------------------------------------------------------ *)
(* ui/server.ts: auth and POST /api/workflows                          *)
(* ------------------------------------------------------------------ *)
Finished(slug, op, ok, id, deleteRemote) ==
    [op |-> op, slug |-> slug, ok |-> ok, id |-> id, deleteRemote |-> deleteRemote]

\* POST /api/auth after a successful connection test: saveAuth
Login ==
    /\ cli.pc = "idle"
    /\ ~auth
    /\ auth' = TRUE
    /\ UNCHANGED <<now, registry, remote, nextId, remoteTags,
                   manifests, workflowFiles, archived, cli, lastOn>>
    /\ UNCHANGED outsideProject

\* DELETE /api/auth: clearAuth
Logout ==
    /\ cli.pc = "idle"
    /\ auth
    /\ auth' = FALSE
    /\ UNCHANGED <<now, registry, remote, nextId, remoteTags,
                   manifests, workflowFiles, archived, cli, lastOn>>
    /\ UNCHANGED outsideProject

\* POST /api/workflows, lines 187-231, for a valid cron expression and a name
\* whose slug is `slug`: rejected when the manifest exists, else the workflow
\* file and the manifest are written and the registry entry upserted
UiCreate(slug) ==
    /\ cli.pc = "idle"
    /\ ~manifestExists(slug)
    /\ workflowFiles' = workflowFiles \cup {slug}
    /\ manifests' = SaveManifest(manifests, createManifest(slug, getISOTimestamp))
    /\ registry' = UpsertEntry(registry,
                               [slug |-> slug, projectPath |-> Project,
                                manifestPath |-> getManifestPath(slug, Project),
                                workflowId |-> NoId],
                               getISOTimestamp)
    /\ lastOn' = Finished(slug, "uiCreate", TRUE, NoId, FALSE)
    /\ UNCHANGED <<now, remote, nextId, remoteTags, archived, auth, cli>>
    /\ UNCHANGED outsideProject

(* ------------------------------------------------------------------ *)
(* commands/cron.deploy.ts: deployAction                               *)
(* ------------------------------------------------------------------ *)
\* line 41 and line 61: `!!manifest.lastDeployedWorkflowId`
DeployIsUpdate(manifest) == Truthy(manifest.lastDeployedWorkflowId)

\* mutant: the manifest is updated right after the workflow is pushed
StepAfterManifestFirst(step, activate) ==
    CASE step = "push" -> "manifest"
      [] step = "manifest" -> "tags"
      [] step = "tags" -> IF activate THEN "activate" ELSE "registry"
      [] step = "activate" -> "registry"
      [] step = "registry" -> "done"

\* lines 57-106: the step that follows a step that succeeded
StepAfter(step, activate) ==
    CASE step = "push" -> "tags"
      [] step = "tags" -> IF activate THEN "activate" ELSE "manifest"
      [] step = "activate" -> "manifest"
      [] step = "manifest" -> "registry"
      [] step = "registry" -> "done"

Advance(step) ==
    [cli EXCEPT !.pc = StepAfter(step, cli.activate),
                !.steps = Append(cli.steps, step)]

\* mutant: --dry-run is not looked at
DryRunIgnored(dryRun) == FALSE

\* lines 44-55: `if (options.dryRun) { ...; return }`
DryRunReturns(dryRun) == dryRun

\* lines 44-55: the summary of a dry run
DeployDryRun(slug) ==
    /\ lastOn' = Finished(slug, "dryRun", TRUE,
                          manifests[slug].lastDeployedWorkflowId, FALSE)
    /\ UNCHANGED <<now, registry, remote, nextId, remoteTags,
                   manifests, workflowFiles, archived, auth, cli>>
    /\ UNCHANGED outsideProject

\* lines 57-59: getClient, and on to the requests
DeployBegin(slug, activate, dryRun) ==
    /\ auth
    /\ cli' = [pc |-> "push", slug |-> slug, activate |-> activate,
               dryRun |-> dryRun,
               isUpdate |-> DeployIsUpdate(manifests[slug]),
               workflowId |-> manifests[slug].lastDeployedWorkflowId,
               finalWorkflowId |-> NoId, kind |-> "none", target |-> NoId,
               steps |-> <<>>,
               follows |-> /\ lastOn.op = "cliDeploy"
                           /\ lastOn.slug = slug
                           /\ lastOn.ok,
               prevId |-> lastOn.id,
               before |-> [manifests |-> manifests, registry |-> registry,
                           remote |-> remote, remoteTags |-> remoteTags,
                           nextId |-> nextId]]
    /\ UNCHANGED <<now, registry, remote, nextId, remoteTags,
                   manifests, workflowFiles, archived, auth, lastOn>>
    /\ UNCHANGED outsideProject

\* lines 19-57: the manifest and the workflow file are read, a missing one
\* ending the command; with --dry-run the operation is printed and the
\* command returns; without, the client is built from the stored credentials
DeployStart(slug, activate, dryRun) ==
    /\ cli.pc = "idle"
    /\ manifestExists(slug)
    /\ slug \in workflowFiles
    /\ IF DryRunReturns(dryRun) THEN DeployDryRun(slug) ELSE DeployBegin(slug, activate, dryRun)

\* lines 61-88: updateWorkflow of the stored id, or createWorkflow; the id
\* of the workflow the server answers with is kept as finalWorkflowId
DeployPush ==
    /\ cli.pc = "push"
    /\ IF cli.isUpdate /\ Truthy(cli.workflowId)
       THEN /\ HasWorkflow(remote, cli.workflowId)
            /\ cli' = [Advance("push") EXCEPT !.kind = "update",
                                              !.target = cli.workflowId,
                                              !.finalWorkflowId = cli.workflowId]
            /\ UNCHANGED <<remote, nextId>>
       ELSE /\ nextId <= MaxCreated
            /\ remote' = ServerCreate(remote, nextId)
            /\ nextId' = nextId + 1
            /\ cli' = [Advance("push") EXCEPT !.kind = "create",
                                              !.finalWorkflowId = nextId]
    /\ UNCHANGED <<now, registry, remoteTags,
                   manifests, workflowFiles, archived, auth, lastOn>>
    /\ UNCHANGED outsideProject

\* lines 90-93: addTagsToWorkflow(finalWorkflowId, createTags(slug)); a
\* request of it that throws ends the command
DeployTags ==
    /\ cli.pc = "tags"
    /\ \E failAt \in 0..MaxRequests(createTags(cli.slug)) :
         LET r == AddTagsToWorkflow(remote, remoteTags, cli.finalWorkflowId,
                                    createTags(cli.slug), failAt)
         IN  /\ remote' = r.workflows
             /\ remoteTags' = r.tags
             /\ IF r.ok
                THEN /\ cli' = Advance("tags")
                     /\ UNCHANGED lastOn
                ELSE /\ cli' = [cli EXCEPT !.pc = "failed"]
                     /\ lastOn' = Finished(cli.slug, "cliDeploy", FALSE,
                                           cli.finalWorkflowId, FALSE)
    /\ UNCHANGED <<now, registry, nextId,
                   manifests, workflowFiles, archived, auth>>
    /\ UNCHANGED outsideProject

\* lines 96-100: activateWorkflow(finalWorkflowId)
DeployActivate ==
    /\ cli.pc = "activate"
    /\ remote' = ServerSetActive(remote, cli.finalWorkflowId, TRUE)
    /\ cli' = Advance("activate")
    /\ UNCHANGED <<now, registry, nextId, remoteTags,
                   manifests, workflowFiles, archived, auth, lastOn>>
    /\ UNCHANGED outsideProject

\* line 103: updateManifestDeployment(slug, finalWorkflowId)
DeployManifest ==
    /\ cli.pc = "manifest"
    /\ manifests' = UpdateManifestDeployment(manifests, cli.slug,
                                             cli.finalWorkflowId, getISOTimestamp)
    /\ cli' = Advance("manifest")
    /\ UNCHANGED <<now, registry, remote, nextId, remoteTags,
                   workflowFiles, archived, auth, lastOn>>
    /\ UNCHANGED outsideProject

\* line 106: updateWorkflowId(slug, basePath, finalWorkflowId), then the
\* summary is printed
DeployRegistry ==
    /\ cli.pc = "registry"
    /\ registry' = SetWorkflowId(registry, cli.slug, Project,
                                 cli.finalWorkflowId, getISOTimestamp)
    /\ cli' = Advance("registry")
    /\ lastOn' = Finished(cli.slug, "cliDeploy", TRUE, cli.finalWorkflowId, FALSE)
    /\ UNCHANGED <<now, remote, nextId, remoteTags,
                   manifests, workflowFiles, archived, auth>>
    /\ UNCHANGED outsideProject

\* line 115: the request or the file access of the current step throws (for
\* the tag step see DeployTags); handleError ends the command
DeployStepFails ==
    /\ cli.pc \in {"push", "activate", "manifest", "registry"}
    /\ cli' = [cli EXCEPT !.pc = "failed"]
    /\ lastOn' = Finished(cli.slug, "cliDeploy", FALSE, cli.finalWorkflowId, FALSE)
    /\ UNCHANGED <<now, registry, remote, nextId, remoteTags,
                   manifests, workflowFiles, archived, auth>>
    /\ UNCHANGED outsideProject

\* the process ends
CliExit ==
    /\ cli.pc \in {"done", "failed"}
    /\ cli' = IdleCli
    /\ UNCHANGED <<now, registry, remote, nextId, remoteTags,
                   manifests, workflowFiles, archived, auth, lastOn>>
    /\ UNCHANGED outsideProject

(* ------------------------------------------------------------------ *)
(* ui/server.ts: POST /api/workflows/:slug/deploy                      *)
(* ------------------------------------------------------------------ *)
\* lines 356-404, answered with success: updateWorkflow of the stored id or
\* createWorkflow, then the manifest is saved with the id the server returned
UiDeploy(slug) ==
    /\ cli.pc = "idle"
    /\ auth
    /\ manifestExists(slug)
    /\ slug \in workflowFiles
    /\ LET manifest == ManifestSchemaParse(manifests[slug])
           creating == ~Truthy(manifest.lastDeployedWorkflowId)
           id == IF creating THEN nextId ELSE manifest.lastDeployedWorkflowId
       IN  /\ IF creating
              THEN /\ nextId <= MaxCreated
                   /\ remote' = ServerCreate(remote, nextId)
                   /\ nextId' = nextId + 1
              ELSE /\ HasWorkflow(remote, id)
                   /\ UNCHANGED <<remote, nextId>>
           /\ manifests' = SaveManifest(manifests,
                              [manifest EXCEPT !.lastDeployedWorkflowId = id,
                                               !.lastDeployedAt = now,
                                               !.updatedAt = now])
           /\ lastOn' = Finished(slug, "uiDeploy", TRUE, id, FALSE)
    /\ UNCHANGED <<now, registry, remoteTags, workflowFiles, archived, auth, cli>>
    /\ UNCHANGED outsideProject

\* lines 374-395: the request throws and the handler answers with an error
UiDeployFails(slug) ==
    /\ cli.pc = "idle"
    /\ auth
    /\ manifestExists(slug)
    /\ slug \in workflowFiles
    /\ lastOn' = Finished(slug, "uiDeploy", FALSE, NoId, FALSE)
    /\ UNCHANGED <<now, registry, remote, nextId, remoteTags,
                   manifests, workflowFiles, archived, auth, cli>>
    /\ UNCHANGED outsideProject

(* ------------------------------------------------------------------ *)
(* commands/cron.archive.ts and DELETE /api/workflows/:slug            *)
(* ------------------------------------------------------------------ *)
\* lines 92-108: the manifest with the two archive fields, written to
\* archived/<slug>.<timestamp>.cron8n.json
WriteArchived(files, manifest, ts) ==
    [k \in DOMAIN files \cup {<<manifest.slug, ts>>} |->
        IF k = <<manifest.slug, ts>>
        THEN [manifest |-> manifest, archivedAt |-> ts,
              archivedFrom |-> getManifestPath(manifest.slug, Project)]
        ELSE files[k]]

\* ui/server.ts lines 337-347: moveFile of the manifest, as it is, to
\* archived/<slug>.<timestamp>.cron8n.json
MoveArchived(files, manifest, ts) ==
    [k \in DOMAIN files \cup {<<manifest.slug, ts>>} |->
        IF k = <<manifest.slug, ts>>
        THEN [manifest |-> manifest, archivedAt |-> NoTime, archivedFrom |-> NoValue]
        ELSE files[k]]

\* archiveAction lines 66-85, the outcomes the request can have: the server
\* deleted or deactivated the workflow, or the request threw (no such
\* workflow, network or API error) and the catch only printed a warning
RemoteAfterArchive(workflows, id, deleteRemote, requestOk) ==
    IF requestOk /\ HasWorkflow(workflows, id)
    THEN IF deleteRemote THEN ServerDelete(workflows, id)
         ELSE ServerSetActive(workflows, id, FALSE)
    ELSE workflows

\* archiveAction, lines 29-131, confirmed or with --force, up to the
\* "Workflow archived successfully!" line
CliArchive(slug, deleteRemote, keepLocal) ==
    /\ cli.pc = "idle"
    /\ manifestExists(slug)
    /\ auth
    /\ LET manifest == ManifestSchemaParse(manifests[slug])
           id == manifest.lastDeployedWorkflowId
       IN  /\ IF Truthy(id)
              THEN \E requestOk \in BOOLEAN :
                      remote' = RemoteAfterArchive(remote, id, deleteRemote, requestOk)
              ELSE UNCHANGED remote
           /\ IF ~keepLocal
              THEN /\ workflowFiles' = workflowFiles \ {slug}
                   /\ archived' = WriteArchived(archived, manifest, getISOTimestamp)
                   /\ manifests' = DeleteManifest(manifests, slug)
                   /\ registry' = RemoveEntry(registry, slug, Project)
              ELSE UNCHANGED <<workflowFiles, archived, manifests, registry>>
           /\ lastOn' = Finished(slug, "cliArchive", TRUE, id, deleteRemote)
    /\ UNCHANGED <<now, nextId, remoteTags, auth, cli>>
    /\ UNCHANGED outsideProject

\* DELETE /api/workflows/:slug, lines 312-353, answered with success: the
\* workflow is deactivated when it is deployed and credentials are stored
\* (errors ignored), both files are moved, the registry entry is removed
UiArchive(slug) ==
    /\ cli.pc = "idle"
    /\ manifestExists(slug)
    /\ slug \in workflowFiles
    /\ LET manifest == manifests[slug]
           id == manifest.lastDeployedWorkflowId
       IN  /\ IF Truthy(id) /\ auth
              THEN \E requestOk \in BOOLEAN :
                      remote' = RemoteAfterArchive(remote, id, FALSE, requestOk)
              ELSE UNCHANGED remote
           /\ workflowFiles' = workflowFiles \ {slug}
           /\ archived' = MoveArchived(archived, manifest, getISOTimestamp)
           /\ manifests' = DeleteManifest(manifests, slug)
           /\ registry' = RemoveEntry(registry, slug, Project)
           /\ lastOn' = Finished(slug, "uiArchive", TRUE, id, FALSE)
    /\ UNCHANGED <<now, nextId, remoteTags, auth, cli>>
    /\ UNCHANGED outsideProject

(* ------------------------------------------------------------------ *)
(* The project                                                         *)
(* ------------------------------------------------------------------ *)
Init == InitRegistry

Create == \E slug \in ProjectSlugs : UiCreate(slug)
CliDeployStart ==
    \E slug \in ProjectSlugs, activate \in BOOLEAN :
        DeployStart(slug, activate, FALSE)
CliDeployDryRun ==
    \E slug \in ProjectSlugs, activate \in BOOLEAN :
        DeployStart(slug, activate, TRUE)
WebDeploy == \E slug \in ProjectSlugs : UiDeploy(slug)
WebDeployFails == \E slug \in ProjectSlugs : UiDeployFails(slug)
CliArchiveRun ==
    \E slug \in ProjectSlugs, deleteRemote \in BOOLEAN, keepLocal \in BOOLEAN :
        CliArchive(slug, deleteRemote, keepLocal)
WebArchive == \E slug \in ProjectSlugs : UiArchive(slug)

Next ==
    \/ Login
    \/ Logout
    \/ Create
    \/ CliDeployStart
    \/ CliDeployDryRun
    \/ DeployPush
    \/ DeployTags
    \/ DeployActivate
    \/ DeployManifest
    \/ DeployRegistry
    \/ DeployStepFails
    \/ CliExit
    \/ WebDeploy
    \/ WebDeployFails
    \/ CliArchiveRun
    \/ WebArchive

Spec == Init /\ [][Next]_vars

(* ------------------------------------------------------------------ *)
(* Deploy and archive properties                                       *)
(* ------------------------------------------------------------------ *)
Done(step) == step \in ToSet(cli.steps)

IsPrefix(p, q) == Len(p) <= Len(q) /\ SubSeq(q, 1, Len(p)) = p

ExpectedSteps(activate) ==
    IF activate THEN <<"push", "tags", "activate", "manifest", "registry">>
    ELSE <<"push", "tags", "manifest", "registry">>

\* C1: a CLI deploy calls createWorkflow when the manifest holds no
\* lastDeployedWorkflowId and updateWorkflow with the stored id otherwise; a
\* deploy that succeeded leaves the id the server returned in the manifest;
\* a successful deploy that follows a successful deploy of the same slug
\* updates the workflow of the earlier one and creates none.
C1_DeployCreatesOnce ==
    cli.pc # "idle" =>
        LET stored == cli.before.manifests[cli.slug].lastDeployedWorkflowId
        IN  /\ Done("push") =>
                 IF stored = NoId
                 THEN cli.kind = "create"
                 ELSE cli.kind = "update" /\ cli.target = stored
            /\ cli.pc = "done" =>
                 /\ manifests[cli.slug].lastDeployedWorkflowId = cli.finalWorkflowId
                 /\ HasWorkflow(remote, cli.finalWorkflowId)
                 /\ nextId = cli.before.nextId + (IF cli.kind = "create" THEN 1 ELSE 0)
            /\ (cli.pc = "done" /\ cli.follows) =>
                 /\ cli.kind = "update"
                 /\ cli.target = cli.prevId
                 /\ cli.finalWorkflowId = cli.prevId
                 /\ nextId = cli.before.nextId

\* the second of two successful deploys in a row
C1_Witness ==
    /\ cli.pc = "done"
    /\ cli.follows
    /\ cli.kind = "update"
    /\ Len(remote) = 1

\* C2 as claimed: after a successful deploy of a slug, by the CLI or by the
\* web UI, the remote workflow carries managed-by:cron8n and cron8n:<slug>,
\* so that discovery reports it as managed with that slug.
C2_DeployedIsManaged ==
    (lastOn.op \in {"cliDeploy", "uiDeploy"} /\ lastOn.ok) =>
        /\ HasWorkflow(remote, lastOn.id)
        /\ ManagedAs(WorkflowById(remote, lastOn.id), remoteTags, lastOn.slug)

\* the CLI's half of C2 holds
CliDeployedIsManaged ==
    (lastOn.op = "cliDeploy" /\ lastOn.ok) =>
        /\ HasWorkflow(remote, lastOn.id)
        /\ ManagedAs(WorkflowById(remote, lastOn.id), remoteTags, lastOn.slug)

\* C3: the steps of a CLI deploy run in the order push, tags, activate (with
\* --activate only), manifest, registry; whatever the command's fate, the
\* effect of every step that has run is in place and no later step has had
\* any effect (only the tag step, made of several requests, can fail with a
\* part of its own effect done).
C3_DeployStepsInOrder ==
    cli.pc # "idle" =>
        LET b == cli.before
            id == cli.finalWorkflowId
            inTagStep == cli.pc = "failed" /\ cli.steps = <<"push">>
        IN  /\ IsPrefix(cli.steps, ExpectedSteps(cli.activate))
            /\ cli.pc = "done" => cli.steps = ExpectedSteps(cli.activate)
            /\ IF Done("push")
               THEN /\ HasWorkflow(remote, id)
                    /\ cli.kind = "create" => ~HasWorkflow(b.remote, id)
               ELSE remote = b.remote /\ nextId = b.nextId
            /\ IF Done("tags")
               THEN ToSet(createTags(cli.slug))
                        \subseteq TagNamesOf(WorkflowById(remote, id), remoteTags)
               ELSE inTagStep \/ remoteTags = b.remoteTags
            /\ Done("push") =>
                 IF Done("activate")
                 THEN WorkflowById(remote, id).active
                 ELSE WorkflowById(remote, id).active
                        = (cli.kind = "update" /\ WorkflowById(b.remote, id).active)
            /\ IF Done("manifest")
               THEN manifests[cli.slug].lastDeployedWorkflowId = id
               ELSE manifests = b.manifests
            /\ IF Done("registry")
               THEN /\ HasIdentity(registry, cli.slug, Project)
                    /\ registry[IndexOf(registry, cli.slug, Project)].workflowId = id
               ELSE registry = b.registry

\* a first deploy with --activate that failed in its manifest step: the
\* workflow is on the server, tagged and active, and the manifest and the
\* registry know nothing of it
C3_Witness ==
    /\ cli.pc = "failed"
    /\ cli.steps = <<"push", "tags", "activate">>
    /\ cli.kind = "create"
    /\ WorkflowById(remote, cli.finalWorkflowId).active
    /\ manifests[cli.slug].lastDeployedWorkflowId = NoId

\* C10 as claimed: once an archive of a deployed workflow has reported
\* success, by the CLI or by the web UI, the remote workflow is not active,
\* and is gone when --delete-remote was given.
C10_ArchivedIsOffline ==
    (/\ lastOn.op \in {"cliArchive", "uiArchive"}
     /\ lastOn.ok
     /\ lastOn.id # NoId
     /\ cli.pc = "idle") =>
        IF lastOn.deleteRemote
        THEN ~HasWorkflow(remote, lastOn.id)
        ELSE ~HasWorkflow(remote, lastOn.id) \/ ~WorkflowById(remote, lastOn.id).active

\* `original`, the manifest of slug, is in the archive with the two archive
\* fields, its file is gone and so is the registry entry of the project
ArchivedPost(slug, original) ==
    /\ slug \notin DOMAIN manifests'
    /\ \E k \in DOMAIN archived' :
          /\ k[1] = slug
          /\ archived'[k].manifest = original
          /\ archived'[k].archivedAt = getISOTimestamp
          /\ archived'[k].archivedFrom = getManifestPath(slug, Project)
    /\ ~HasIdentity(registry', slug, Project)

\* C11 as claimed: a successful archive that moves the local files, by the
\* CLI without --keep-local or by the web UI, leaves no manifest of the slug,
\* an archived manifest with every field of the original plus archivedAt and
\* archivedFrom, and no registry entry of (slug, project).
C11_ArchiveMovesManifest ==
    [][\A slug \in ProjectSlugs :
          ((\E deleteRemote \in BOOLEAN : CliArchive(slug, deleteRemote, FALSE))
             \/ UiArchive(slug))
          => ArchivedPost(slug, manifests[slug])]_vars

\* the CLI's half of C11 holds for the fields of the manifest schema
CliArchiveMovesManifest ==
    [][\A slug \in ProjectSlugs :
          (\E deleteRemote \in BOOLEAN : CliArchive(slug, deleteRemote, FALSE))
          => ArchivedPost(slug, ManifestSchemaParse(manifests[slug]))]_vars

\* the registry entry of (slug, project), when there is one, names the
\* workflow the manifest names
RegistryAgrees(slug) ==
    (slug \in DOMAIN manifests /\ HasIdentity(registry, slug, Project)) =>
        registry[IndexOf(registry, slug, Project)].workflowId
            = manifests[slug].lastDeployedWorkflowId

\* C12 as claimed: after a successful deploy of a slug, by the CLI or by the
\* web UI, the registry entry of (slug, project), when there is one, has the
\* manifest's lastDeployedWorkflowId as its workflowId.
C12_RegistryFollowsDeploy ==
    (lastOn.op \in {"cliDeploy", "uiDeploy"} /\ lastOn.ok) => RegistryAgrees(lastOn.slug)

\* the CLI's half of C12 holds
CliRegistryFollowsDeploy ==
    (lastOn.op = "cliDeploy" /\ lastOn.ok) => RegistryAgrees(lastOn.slug)

(* ------------------------------------------------------------------ *)
(* The schedule of a workflow: manifest and trigger node               *)
(* ------------------------------------------------------------------ *)
DefaultCron == "0 * * * *"
DefaultTimezone == "Europe/Istanbul"
CronExprs == {DefaultCron, "*/5 * * * *"}
Timezones == {DefaultTimezone, "UTC"}

\* the parameters of a trigger node that the code reads or writes:
\*   rule            parameters.rule.interval[0].expression (field 'cronExpression')
\*   cronExpression  parameters.cronExpression
\*   triggerTimes    parameters.triggerTimes.item[0].cronExpression
\*   options         whether parameters.options is an object
\*   optionsTimezone parameters.options.timezone
\*   timezone        parameters.timezone
MakeNode(shape, expression, timezoneAt, timezone) ==
    [rule |-> IF shape = "rule" THEN expression ELSE NoValue,
     cronExpression |-> IF shape = "cronExpression" THEN expression ELSE NoValue,
     triggerTimes |-> IF shape = "triggerTimes" THEN expression ELSE NoValue,
     options |-> timezoneAt = "options",
     optionsTimezone |-> IF timezoneAt = "options" THEN timezone ELSE NoValue,
     timezone |-> IF timezoneAt = "timezone" THEN timezone ELSE NoValue]

\* the trigger nodes of the remote workflows that are imported: each of the
\* three shapes of the expression, the timezone in either place or nowhere
RemoteNodes ==
    {MakeNode(shape, expression, timezoneAt, timezone) :
        shape \in {"rule", "cronExpression", "triggerTimes"},
        expression \in CronExprs,
        timezoneAt \in {"options", "timezone", "none"},
        timezone \in Timezones}

\* JavaScript truthiness of an optional string: present and not empty
Filled(x) == x \notin {NoValue, ""}

\* mutant: a trigger node in the shape of the older cron node
createCronNodeOldShape(cronExpression, timezone) ==
    MakeNode("cronExpression", cronExpression, "timezone", timezone)

\* templates.ts createCronNode
createCronNode(cronExpression, timezone) ==
    MakeNode("rule", cronExpression, "options", timezone)

\* discover.ts extractCronExpression: the three shapes, in this order
extractCronExpression(node) ==
    IF Filled(node.rule) THEN node.rule
    ELSE IF Filled(node.cronExpression) THEN node.cronExpression
    ELSE IF Filled(node.triggerTimes) THEN node.triggerTimes
    ELSE NoValue

\* discover.ts extractTimezone
extractTimezone(node) ==
    IF node.options /\ Filled(node.optionsTimezone) THEN node.optionsTimezone
    ELSE IF Filled(node.timezone) THEN node.timezone
    ELSE NoValue

\* `x ?? fallback`
OrElse(x, fallback) == IF x = NoValue THEN fallback ELSE x

\* cron.edit.ts getCronExpression: `rule?.interval?.[0]?.expression || ''`
getCronExpression(node) == IF node.rule # NoValue THEN node.rule ELSE ""

\* cron.edit.ts getTimezone: `options?.timezone || 'Europe/Istanbul'`
getTimezone(node) ==
    IF node.options /\ node.optionsTimezone # NoValue THEN node.optionsTimezone
    ELSE DefaultTimezone

\* `if (rule?.interval?.[0]) rule.interval[0].expression = cron`
SetRuleExpression(node, cron) ==
    IF node.rule # NoValue THEN [node EXCEPT !.rule = cron] ELSE node

\* `if (opts) opts.timezone = timezone`
SetOptionsTimezone(node, timezone) ==
    IF node.options THEN [node EXCEPT !.optionsTimezone = timezone] ELSE node

\* an option that was given (a non-empty string)
Given(x) == x # NoValue

\* cron new, POST /api/workflows: the manifest and the template's workflow
\* are made from the same expression and timezone
SchedCreate(cronExpression, timezone) ==
    /\ ~sched.exists
    /\ sched' = [exists |-> TRUE, by |-> "create",
                 manifest |-> [cronExpression |-> cronExpression,
                               timezone |-> timezone],
                 node |-> createCronNode(cronExpression, timezone)]
    /\ UNCHANGED outsideSchedule

\* importAction lines 347-380: the manifest takes what the first cron node
\* yields, or the defaults; the workflow file takes the nodes as they are
SchedImport(node) ==
    /\ sched' = [exists |-> TRUE, by |-> "import",
                 manifest |-> [cronExpression |->
                                   OrElse(extractCronExpression(node), DefaultCron),
                               timezone |->
                                   OrElse(extractTimezone(node), DefaultTimezone)],
                 node |-> node]
    /\ UNCHANGED outsideSchedule

\* editAction lines 78-247 with --cron and/or --timezone
SchedEditCli(newCron, newTimezone) ==
    /\ sched.exists
    /\ LET currentCron == getCronExpression(sched.node)
           currentTimezone == getTimezone(sched.node)
           cronChanges == Given(newCron) /\ newCron # currentCron
           timezoneChanges == Given(newTimezone) /\ newTimezone # currentTimezone
           node1 == IF cronChanges THEN SetRuleExpression(sched.node, newCron)
                    ELSE sched.node
           node2 == IF timezoneChanges THEN SetOptionsTimezone(node1, newTimezone)
                    ELSE node1
       IN  /\ cronChanges \/ timezoneChanges
           /\ sched' = [sched EXCEPT
                  !.by = "edit",
                  !.manifest.cronExpression = IF cronChanges THEN newCron ELSE @,
                  !.manifest.timezone = IF timezoneChanges THEN newTimezone ELSE @,
                  !.node = node2]
    /\ UNCHANGED outsideSchedule

\* PUT /api/workflows/:slug lines 261-294 with cronExpression and/or timezone
SchedEditUi(cronExpression, timezone) ==
    /\ sched.exists
    /\ Given(cronExpression) \/ Given(timezone)
    /\ LET node1 == IF Given(cronExpression)
                    THEN SetRuleExpression(sched.node, cronExpression)
                    ELSE sched.node
           node2 == IF Given(timezone) THEN SetOptionsTimezone(node1, timezone)
                    ELSE node1
       IN  sched' = [sched EXCEPT
                  !.by = "uiEdit",
                  !.manifest.cronExpression =
                      IF Given(cronExpression) THEN cronExpression ELSE @,
                  !.manifest.timezone = IF Given(timezone) THEN timezone ELSE @,
                  !.node = node2]
    /\ UNCHANGED outsideSchedule

InitSchedule == InitRegistry

NewSchedule == \E c \in CronExprs, z \in Timezones : SchedCreate(c, z)
ImportSchedule == \E node \in RemoteNodes : SchedImport(node)
EditSchedule ==
    \E c \in CronExprs \cup {NoValue}, z \in Timezones \cup {NoValue} :
        SchedEditCli(c, z)
WebEditSchedule ==
    \E c \in CronExprs \cup {NoValue}, z \in Timezones \cup {NoValue} :
        SchedEditUi(c, z)

NextSchedule ==
    \/ NewSchedule
    \/ ImportSchedule
    \/ EditSchedule
    \/ WebEditSchedule

SpecSchedule == InitSchedule /\ [][NextSchedule]_vars

\* C13 as claimed: after any create, import and edit operations the
\* manifest's cronExpression and timezone are what extractCronExpression and
\* extractTimezone read from the trigger node of the workflow file (what the
\* node does not carry being the importer's default), whichever of the three
\* shapes the node has.
C13_ManifestMirrorsNode ==
    sched.exists =>
        /\ sched.manifest.cronExpression
              = OrElse(extractCronExpression(sched.node), DefaultCron)
        /\ sched.manifest.timezone
              = OrElse(extractTimezone(sched.node), DefaultTimezone)

\* C13 holds as long as nothing is edited
MirrorsUntilEdited ==
    (sched.exists /\ sched.by \in {"create", "import"}) => C13_ManifestMirrorsNode

\* C13 holds for the workflows the templates make, edited or not
TemplateNode(node) == node.rule # NoValue /\ node.options

TemplateMirrors == (sched.exists /\ TemplateNode(sched.node)) => C13_ManifestMirrorsNode

(* ------------------------------------------------------------------ *)
(* utils/slug.ts and the slug of a new manifest                        *)
(* ------------------------------------------------------------------ *)
MaxNameLen == 3

\* a string is a sequence of characters; one character of each class the
\* regular expressions of slug.ts tell apart
Chars == {"a", "A", "1", "-", "_", " ", "!"}

Strings == UNION {[1..n -> Chars] : n \in 0..MaxNameLen}

\* String.prototype.toLowerCase
ToLowerCase(str) == [i \in 1..Len(str) |-> IF str[i] = "A" THEN "a" ELSE str[i]]

IsSpace(c) == c = " "
\* \w
IsWord(c) == c \in {"a", "A", "1", "_"}

RECURSIVE TrimStart(_, _)
TrimStart(str, drop) ==
    IF str # <<>> /\ Head(str) \in drop THEN TrimStart(Tail(str), drop) ELSE str

RECURSIVE TrimEnd(_, _)
TrimEnd(str, drop) ==
    IF str # <<>> /\ str[Len(str)] \in drop
    THEN TrimEnd(SubSeq(str, 1, Len(str) - 1), drop)
    ELSE str

\* String.prototype.trim, and .replace(/^-+|-+$/g, '')
Strip(str, drop) == TrimEnd(TrimStart(str, drop), drop)

\* .replace(/[^\w\s-]/g, '')
RemoveSpecial(str) ==
    SelectSeq(str, LAMBDA c : IsWord(c) \/ IsSpace(c) \/ c = "-")

\* .replace(/<class>+/g, '-'): every maximal run of characters of the class
\* becomes one hyphen
RECURSIVE ReplaceRuns(_, _)
ReplaceRuns(str, class) ==
    IF str = <<>> THEN <<>>
    ELSE IF Head(str) \in class
         THEN <<"-">> \o ReplaceRuns(TrimStart(str, class), class)
         ELSE <<Head(str)>> \o ReplaceRuns(Tail(str), class)

\* mutant: createSlug without its last replace
createSlugUntrimmed(input) ==
    ReplaceRuns(ReplaceRuns(RemoveSpecial(Strip(ToLowerCase(input), {" "})),
                            {" ", "_"}),
                {"-"})

\* slug.ts createSlug; discover.ts suggestSlug is the same chain
createSlug(input) ==
    Strip(ReplaceRuns(ReplaceRuns(RemoveSpecial(Strip(ToLowerCase(input), {" "})),
                                  {" ", "_"}),
                      {"-"}),
          {"-"})

suggestSlug(workflowName) == createSlug(workflowName)

\* slug.ts isValidSlug: /^[a-z0-9]+(?:-[a-z0-9]+)*$/
isValidSlug(slug) ==
    /\ slug # <<>>
    /\ \A i \in 1..Len(slug) : slug[i] \in {"a", "1", "-"}
    /\ slug[1] # "-"
    /\ slug[Len(slug)] # "-"
    /\ \A i \in 1..(Len(slug) - 1) : ~(slug[i] = "-" /\ slug[i + 1] = "-")

\* what the slug prompt accepts when its validate function checks isValidSlug
ValidSlugs == {str \in Strings : isValidSlug(str)}

Written(by, name, slug, existed) ==
    [by |-> by, name |-> name, slug |-> slug, existed |-> existed]

\* the slugs typed at the slug prompt
TypedSlugs == {<<"a">>, <<"a", "-", "1">>, <<"A">>, <<"-", "a">>, <<>>}

\* the slug prompt of new and import: `validate` lets only a valid slug
\* through; an empty answer cancels the command
Prompted(typed) == typed = <<>> \/ isValidSlug(typed)

\* newAction lines 134-164: the slug is createSlug(name); only when a
\* manifest of that slug exists is another one asked for, and validated
SlugNew(existed, typed) ==
    /\ sl.by = "none"
    /\ sl.name # <<>>
    /\ IF existed
       THEN /\ Prompted(typed)
            /\ sl' = IF typed = <<>> THEN Written("cancelled", sl.name, <<>>, existed)
                     ELSE Written("new", sl.name, typed, existed)
       ELSE /\ typed = <<>>
            /\ sl' = Written("new", sl.name, createSlug(sl.name), existed)
    /\ UNCHANGED outsideSlug

\* POST /api/workflows lines 197-206: the slug is createSlug(name); the
\* request is refused when a manifest of that slug exists
SlugUiCreate(existed) ==
    /\ sl.by = "none"
    /\ sl' = IF existed THEN Written("refused", sl.name, <<>>, existed)
             ELSE Written("uiCreate", sl.name, createSlug(sl.name), existed)
    /\ UNCHANGED outsideSlug

\* importAction lines 318-359: --slug or suggestSlug(name); when that is not
\* a valid slug or has a manifest, another one is asked for, and validated
SlugImport(optionSlug, existed, typed) ==
    /\ sl.by = "none"
    /\ LET slug == IF optionSlug # <<>> THEN optionSlug ELSE suggestSlug(sl.name)
       IN  IF ~isValidSlug(slug) \/ existed
           THEN /\ Prompted(typed)
                /\ sl' = IF typed = <<>>
                         THEN Written("cancelled", sl.name, <<>>, existed)
                         ELSE Written("import", sl.name, typed, existed)
           ELSE /\ typed = <<>>
                /\ sl' = Written("import", sl.name, slug, existed)
    /\ UNCHANGED outsideSlug

\* a workflow name, given to new, to the web UI or found on the server
InitSlug ==
    /\ InitServer
    /\ InitLocal
    /\ sched = NoSchedule
    /\ InitAuthUnit
    /\ imp = NoImport
    /\ ld = NoDirectory
    /\ InitFurther
    /\ sl \in {Unwritten(name) : name \in Strings}

NewSlug == \E existed \in BOOLEAN, typed \in TypedSlugs : SlugNew(existed, typed)
WebNewSlug == \E existed \in BOOLEAN : SlugUiCreate(existed)
ImportSlug ==
    \E optionSlug \in {<<>>, <<"a">>, <<"A", "-">>},
       existed \in BOOLEAN, typed \in TypedSlugs :
        SlugImport(optionSlug, existed, typed)

NextSlug ==
    \/ NewSlug
    \/ WebNewSlug
    \/ ImportSlug

SpecSlug == InitSlug /\ [][NextSlug]_vars

WroteManifest == sl.by \in {"new", "uiCreate", "import"}

\* C14 as claimed: every manifest written by cron new, by POST
\* /api/workflows or by import has a slug that satisfies isValidSlug.
C14_WrittenSlugIsValid == WroteManifest => isValidSlug(sl.slug)

\* import's half of C14 holds
ImportedSlugIsValid == sl.by = "import" => isValidSlug(sl.slug)

\* createSlug yields a valid slug or the empty string
CreateSlugValidOrEmpty ==
    (sl.by \in {"new", "uiCreate"} /\ ~sl.existed) =>
        sl.slug = <<>> \/ isValidSlug(sl.slug)

\* C15 as claimed: updateManifestDeployment(slug, workflowId) stores a
\* manifest whose lastDeployedWorkflowId is workflowId, whose lastDeployedAt
\* and updatedAt are the current time, and whose other fields are those of
\* the manifest file before the call.
C15_DeploymentStampsManifest ==
    [][DeployManifest =>
          manifests' = SaveManifest(manifests,
              [manifests[cli.slug] EXCEPT
                  !.lastDeployedWorkflowId = cli.finalWorkflowId,
                  !.lastDeployedAt = getISOTimestamp,
                  !.updatedAt = getISOTimestamp])]_vars

\* what holds instead: the two deployment fields are stored and the fields
\* of the schema are kept; updatedAt is not written, and one that the file
\* had is dropped
DeploymentStoresTwoFields ==
    [][DeployManifest =>
          manifests' = SaveManifest(manifests,
              [manifests[cli.slug] EXCEPT
                  !.lastDeployedWorkflowId = cli.finalWorkflowId,
                  !.lastDeployedAt = getISOTimestamp,
                  !.updatedAt = NoTime])]_vars

\* a CLI deploy has rewritten a manifest that had an updatedAt
UpdatedAtDropped ==
    /\ cli.pc \in {"registry", "done"}
    /\ cli.before.manifests[cli.slug].updatedAt # NoTime
    /\ manifests[cli.slug].updatedAt = NoTime

(* ------------------------------------------------------------------ *)
(* config/store.ts, auth login, POST and DELETE /api/auth              *)
(* ------------------------------------------------------------------ *)
\* AuthModeSchema
AuthModes == {"apiKey", "bearerToken"}

\* what --baseUrl, --mode and --secret are given as: URLs that `new URL`
\* accepts, the two modes and a mode that is none of them, non-empty secrets
GivenBaseUrls == {"https://n8n.example.com", "http://localhost:5678"}
GivenModes == AuthModes \cup {"bearer"}
GivenSecrets == {"key1", "key2"}
GivenCredentials ==
    [baseUrl : GivenBaseUrls, authMode : GivenModes, secret : GivenSecrets]

\* how the request of testConnection ends
Outcomes == {"ok", "apiError", "networkError"}

\* ConfigSchema.parse: every key optional, authMode one of the enum
ConfigSchemaAccepts(data) == data.authMode \in AuthModes \cup {NoValue}

\* loadConfig: `{}` when the file is absent or does not parse
loadConfig(file) == IF ConfigSchemaAccepts(file) THEN file ELSE NoCredentials

\* saveAuth: load, set the three fields, save
saveAuth(file, credentials) ==
    [loadConfig(file) EXCEPT !.baseUrl = credentials.baseUrl,
                             !.authMode = credentials.authMode,
                             !.secret = credentials.secret]

\* clearAuth: load, delete the three fields, save
clearAuth(file) ==
    [loadConfig(file) EXCEPT !.baseUrl = NoValue,
                             !.authMode = NoValue,
                             !.secret = NoValue]

\* getAuth: null unless the three fields of the loaded config are truthy
getAuth(file) ==
    LET c == loadConfig(file)
    IN  IF c.baseUrl = NoValue \/ c.authMode = NoValue \/ c.secret = NoValue
        THEN NoCredentials
        ELSE c

isAuthenticated(file) == getAuth(file) # NoCredentials

\* N8nClient.request throws an ApiError for a status >= 400 and for a
\* failed request alike; testConnection catches whatever is thrown
testConnection(outcome) == outcome = "ok"

\* mutant: the credentials are saved whatever the test says
SavesUntested(isValid) == TRUE

\* loginAction lines 93-103, POST /api/auth lines 91-102: saveAuth is
\* reached only when testConnection returned true
Saves(isValid) == isValid

LoginRecord(op, credentials, outcome, saved) ==
    [op |-> op, given |-> credentials, outcome |-> outcome, saved |-> saved,
     before |-> config]

\* auth login with the three options given: the URL is checked with
\* `new URL`, mode and secret only for being non-empty
loginAction(credentials, outcome) ==
    /\ LET saved == Saves(testConnection(outcome))
       IN  /\ config' = IF saved THEN saveAuth(config, credentials) ELSE config
           /\ authLog' = LoginRecord("login", credentials, outcome, saved)
    /\ UNCHANGED outsideAuth

\* POST /api/auth: the mode must be one of the two, else 400 without a test
UiPostAuth(credentials, outcome) ==
    /\ LET tested == credentials.authMode \in AuthModes
           saved == tested /\ Saves(testConnection(outcome))
       IN  /\ config' = IF saved THEN saveAuth(config, credentials) ELSE config
           /\ authLog' = LoginRecord("uiLogin", credentials,
                                     IF tested THEN outcome ELSE "none", saved)
    /\ UNCHANGED outsideAuth

\* auth logout, DELETE /api/auth
logoutAction ==
    /\ config' = clearAuth(config)
    /\ authLog' = LoginRecord("logout", NoCredentials, "none", FALSE)
    /\ UNCHANGED outsideAuth

InitAuth == InitRegistry

CliLogin ==
    \E credentials \in GivenCredentials, outcome \in Outcomes :
        loginAction(credentials, outcome)
WebLogin ==
    \E credentials \in GivenCredentials, outcome \in Outcomes :
        UiPostAuth(credentials, outcome)

NextAuth ==
    \/ CliLogin
    \/ WebLogin
    \/ logoutAction

SpecAuth == InitAuth /\ [][NextAuth]_vars

\* C16 as claimed: getAuth returns the credentials of the most recent
\* saveAuth when no clearAuth followed it, and null otherwise;
\* isAuthenticated is true exactly when baseUrl, authMode and secret are all
\* present in the stored config.
C16_AuthRoundTrip ==
    /\ authLog.saved => getAuth(config) = authLog.given
    /\ authLog.op \in {"none", "logout"} => getAuth(config) = NoCredentials
    /\ isAuthenticated(config) <=>
          (config.baseUrl # NoValue /\ config.authMode # NoValue
             /\ config.secret # NoValue)

\* C16 holds for the credentials of the AuthCredentials type
TypedAuthRoundTrip == config.authMode \in AuthModes \cup {NoValue} => C16_AuthRoundTrip

\* C17: testConnection turns a network error and an API error alike into
\* false; a login, by the CLI or by the web UI, whose connection test did not
\* succeed saves nothing and leaves the stored credentials as they were.
C17_SavedOnlyAfterTest ==
    /\ \A outcome \in Outcomes \ {"ok"} : testConnection(outcome) = FALSE
    /\ (authLog.op \in {"login", "uiLogin"} /\ authLog.outcome # "ok") =>
          /\ ~authLog.saved
          /\ config = authLog.before
    /\ authLog.saved => authLog.outcome = "ok"

\* a login that failed on the network while credentials were stored
C17_Witness ==
    /\ authLog.op \in {"login", "uiLogin"}
    /\ authLog.outcome = "networkError"
    /\ authLog.before # NoCredentials
    /\ authLog.given # authLog.before
    /\ config = authLog.before

(* ------------------------------------------------------------------ *)
(* commands/cron.import.ts: importAction                               *)
(* ------------------------------------------------------------------ *)
\* what --slug is given as, or suggestSlug makes of the workflow's name,
\* or is typed at the slug prompt; NoValue at the prompt cancels
ImportSlugs == Slugs \cup {"A!"}

\* the characters of these slugs, for isValidSlug
SlugText(slug) ==
    CASE slug = "a" -> <<"a">>
      [] slug = "b" -> <<"a", "-", "1">>
      [] slug = "A!" -> <<"A", "!">>
      [] OTHER -> <<>>

\* the prompt's validate, lines 322-330
ImportPromptAccepts(typed, force) ==
    /\ isValidSlug(SlugText(typed))
    /\ ~(manifestExists(typed) /\ ~force)

\* mutant: the slug prompt lets an existing slug through
AsksForSlugNever(slug) == ~isValidSlug(SlugText(slug))

\* line 319: the slug is asked for when it is invalid or has a manifest
AsksForSlug(slug) == ~isValidSlug(SlugText(slug)) \/ manifestExists(slug)

ImportRecord(workflowId, force, slug, outcome) ==
    [op |-> "import", id |-> workflowId, force |-> force, slug |-> slug,
     outcome |-> outcome,
     before |-> [manifests |-> manifests, workflowFiles |-> workflowFiles,
                 registry |-> registry]]

\* lines 347-380: the workflow file, the manifest with the remote id as
\* lastDeployedWorkflowId, and the registry entry
ImportWrites(workflowId, slug) ==
    /\ workflowFiles' = workflowFiles \cup {slug}
    /\ manifests' = SaveManifest(manifests,
                       [createManifest(slug, getISOTimestamp) EXCEPT
                           !.lastDeployedWorkflowId = workflowId,
                           !.lastDeployedAt = getISOTimestamp])
    /\ registry' = UpsertEntry(registry,
                               [slug |-> slug, projectPath |-> Project,
                                manifestPath |-> getManifestPath(slug, Project),
                                workflowId |-> workflowId],
                               getISOTimestamp)

\* importAction lines 294-410 for a workflow with a cron node
importAction(workflowId, force, slug, typed) ==
    /\ auth
    /\ HasWorkflow(remote, workflowId)
    /\ LET workflow == WorkflowById(remote, workflowId)
           managed == isCron8nManaged(TagNamesOf(workflow, remoteTags))
       IN  IF managed /\ ~force
           THEN /\ typed = NoValue
                /\ imp' = ImportRecord(workflowId, force, slug, "managed")
                /\ UNCHANGED <<manifests, workflowFiles, registry>>
           ELSE IF AsksForSlug(slug)
           THEN IF typed = NoValue
                THEN /\ imp' = ImportRecord(workflowId, force, slug, "cancelled")
                     /\ UNCHANGED <<manifests, workflowFiles, registry>>
                ELSE /\ ImportPromptAccepts(typed, force)
                     /\ imp' = ImportRecord(workflowId, force, typed, "imported")
                     /\ ImportWrites(workflowId, typed)
           ELSE /\ typed = NoValue
                /\ imp' = ImportRecord(workflowId, force, slug, "imported")
                /\ ImportWrites(workflowId, slug)
    /\ UNCHANGED <<remote, nextId, remoteTags>>
    /\ UNCHANGED outsideImport

\* the workflows on the server that imports are tried on
MaxImportable == 2

\* someone makes a workflow with a cron trigger in the n8n editor
RemoteAppears ==
    /\ Len(remote) < MaxImportable
    /\ remote' = ServerCreate(remote, nextId)
    /\ nextId' = nextId + 1
    /\ UNCHANGED <<now, registry, call, remoteTags, lw, tg, local>>

\* a deploy from another project tags a workflow of the server as managed
RemoteManaged ==
    /\ \E k \in 1..Len(remote) :
         LET r == AddTagsToWorkflow(remote, remoteTags, remote[k].id,
                                    createTags("a"), 0)
         IN  /\ ~isCron8nManaged(TagNamesOf(remote[k], remoteTags))
             /\ remote' = r.workflows
             /\ remoteTags' = r.tags
    /\ UNCHANGED <<nextId, manifests, workflowFiles, registry, imp>>
    /\ UNCHANGED outsideImport

InitImport == InitRegistry

ImportRun ==
    \E workflowId \in 1..MaxImportable, force \in BOOLEAN,
       slug \in ImportSlugs, typed \in ImportSlugs \cup {NoValue} :
        importAction(workflowId, force, slug, typed)

NextImport ==
    \/ Login
    \/ Create
    \/ RemoteAppears
    \/ RemoteManaged
    \/ ImportRun

SpecImport == InitImport /\ [][NextImport]_vars

\* the files and the registry are as they were before the import
ImportWroteNothing ==
    /\ manifests = imp.before.manifests
    /\ workflowFiles = imp.before.workflowFiles
    /\ registry = imp.before.registry

ImportPost ==
    /\ imp.outcome = "imported" =>
          /\ isValidSlug(SlugText(imp.slug))
          /\ imp.slug \notin DOMAIN imp.before.manifests
          /\ imp.slug \notin imp.before.workflowFiles
          /\ imp.slug \in DOMAIN manifests
    /\ \A slug \in DOMAIN imp.before.manifests :
          slug \in DOMAIN manifests /\ manifests[slug] = imp.before.manifests[slug]
    /\ imp.before.workflowFiles \subseteq workflowFiles
    /\ imp.outcome # "imported" => ImportWroteNothing
    /\ isCron8nManaged(TagNamesOf(WorkflowById(remote, imp.id), remoteTags)) =>
          imp.outcome = "managed" /\ ImportWroteNothing

C18_ManagedRefused ==
    /\ imp.op = "import"
    /\ imp.outcome = "managed"
    /\ DOMAIN manifests # {}

\* with --force an existing manifest is overwritten
ForcedOverwrite ==
    /\ imp.op = "import"
    /\ imp.force
    /\ imp.slug \in DOMAIN imp.before.manifests
    /\ manifests[imp.slug] # imp.before.manifests[imp.slug]

\* C19: cron deploy --dry-run changes nothing: it gets no further than
\* reading the manifest and the workflow file, so it sends no request, and it
\* leaves the manifest, the workflow file, the registry and the server as
\* they were; it runs without stored credentials.
C19_DryRunChangesNothing ==
    /\ [](cli.pc # "idle" => ~cli.dryRun)
    /\ [][\A slug \in ProjectSlugs, activate \in BOOLEAN :
             DeployStart(slug, activate, TRUE) =>
                UNCHANGED <<manifests, workflowFiles, registry, archived, auth,
                            remote, nextId, remoteTags, cli>>]_vars

\* a dry run of a deployed workflow by someone who is not logged in
C19_Witness ==
    /\ lastOn.op = "dryRun"
    /\ lastOn.id # NoId
    /\ ~auth
    /\ cli.pc = "idle"

(* ------------------------------------------------------------------ *)
(* workflows/manifest.ts: loadManifest, listManifests, loadAllManifests *)
(* ------------------------------------------------------------------ *)
\* the order in which readdir lists the manifest files
LoadSlugs == <<"a", "b", "c">>

\* a file <slug>.cron8n.json: what readJson and ManifestSchema.parse make of
\* it, and for a file that passes the manifest it holds
FileKinds == {"valid", "deployed", "unreadable", "notJson", "schemaInvalid", "absent"}

FileOf(slug, kind) ==
    [kind |-> kind,
     data |-> IF kind = "deployed"
              THEN [createManifest(slug, 1) EXCEPT !.lastDeployedWorkflowId = 1,
                                                   !.lastDeployedAt = 1,
                                                   !.updatedAt = 1]
              ELSE createManifest(slug, 1)]

Directories ==
    {[slug \in ToSet(LoadSlugs) |-> FileOf(slug, kinds[slug])] :
        kinds \in [ToSet(LoadSlugs) -> FileKinds]}

\* readJson succeeds and ManifestSchema.parse accepts
Passes(file) == file.kind \in {"valid", "deployed"}

Thrown == [ok |-> FALSE, manifest |-> NoValue]

\* mutant: a file that does not pass yields a default manifest
loadManifestDefaulted(dir, slug) ==
    IF Passes(dir[slug])
    THEN [ok |-> TRUE, manifest |-> ManifestSchemaParse(dir[slug].data)]
    ELSE [ok |-> TRUE, manifest |-> createManifest(slug, 1)]

\* loadManifest lines 75-79: readJson or ManifestSchema.parse throws, or the
\* parsed manifest is returned
loadManifest(dir, slug) ==
    IF Passes(dir[slug])
    THEN [ok |-> TRUE, manifest |-> ManifestSchemaParse(dir[slug].data)]
    ELSE Thrown

\* listManifests lines 115-128: the slugs of the *.cron8n.json files
listManifests(dir) == SelectSeq(LoadSlugs, LAMBDA slug : dir[slug].kind # "absent")

\* loadAllManifests lines 136-145: the loop with its try / catch
RECURSIVE LoadEach(_, _)
LoadEach(dir, slugs) ==
    IF slugs = <<>> THEN <<>>
    ELSE LET loaded == loadManifest(dir, Head(slugs))
         IN  (IF loaded.ok THEN <<loaded.manifest>> ELSE <<>>)
                \o LoadEach(dir, Tail(slugs))

loadAllManifests(dir) == LoadEach(dir, listManifests(dir))

\* cron list, the UI's listing: loadAllManifests
LoadAll ==
    /\ ld' = [ld EXCEPT !.op = "loadAll", !.slug = NoValue, !.ok = TRUE,
                        !.result = loadAllManifests(ld.dir)]
    /\ UNCHANGED outsideLoad

\* deploy, archive, edit, inspect of one slug: loadManifest
LoadOne(slug) ==
    /\ LET loaded == loadManifest(ld.dir, slug)
       IN  ld' = [ld EXCEPT !.op = "load", !.slug = slug, !.ok = loaded.ok,
                            !.result = IF loaded.ok THEN <<loaded.manifest>>
                                       ELSE <<>>]
    /\ UNCHANGED outsideLoad

\* a workflows directory with any mix of good and damaged manifest files
InitLoad ==
    /\ InitServer
    /\ InitLocal
    /\ sched = NoSchedule
    /\ sl = NoSlug
    /\ InitAuthUnit
    /\ imp = NoImport
    /\ ld \in {Unloaded(dir) : dir \in Directories}
    /\ InitFurther

LoadNamed == \E slug \in ToSet(LoadSlugs) : LoadOne(slug)

NextLoad ==
    \/ LoadAll
    \/ LoadNamed

SpecLoad == InitLoad /\ [][NextLoad]_vars

\* the manifests of the directory whose files pass
PassingManifests(dir) ==
    {ManifestSchemaParse(dir[slug].data) :
        slug \in {t \in DOMAIN dir : Passes(dir[t])}}

\* C20: loadAllManifests does not fail and returns exactly the manifests of
\* the files that parse and pass the schema, one each; loadManifest of a slug
\* whose file is unreadable or schema-invalid fails and returns no manifest.
C20_BulkSkipsSingleFails ==
    /\ ld.op = "loadAll" =>
          /\ ld.ok
          /\ ToSet(ld.result) = PassingManifests(ld.dir)
          /\ Len(ld.result) = Cardinality(PassingManifests(ld.dir))
    /\ ld.op = "load" =>
          IF Passes(ld.dir[ld.slug])
          THEN ld.ok /\ ld.result = <<ManifestSchemaParse(ld.dir[ld.slug].data)>>
          ELSE ~ld.ok /\ ld.result = <<>>

\* a bulk load that skipped two damaged files and returned the third
C20_Witness ==
    /\ ld.op = "loadAll"
    /\ ld.dir["a"].kind = "notJson"
    /\ ld.dir["b"].kind = "deployed"
    /\ ld.dir["c"].kind = "schemaInvalid"
    /\ Len(ld.result) = 1
    /\ ld.result[1].slug = "b"

\* a single load of a damaged file that failed
C20_SingleFailed ==
    /\ ld.op = "load"
    /\ ld.dir[ld.slug].kind = "schemaInvalid"
    /\ ~ld.ok

(* ------------------------------------------------------------------ *)
(* config/registry.ts: loadRegistry on a missing or damaged file       *)
(* ------------------------------------------------------------------ *)
outsideRegistryFile == <<now, call, remote, nextId, remoteTags, lw, tg,
                         manifests, workflowFiles, archived, auth, cli, lastOn,
                         firstUnits, parsed, tpl, web, race, arc>>

\* registry.json on disk: "valid" parses and matches RegistrySchema, "noMatch"
\* parses but does not match it (it still holds the entries of `registry`),
\* "notJson" does not parse, "absent" is no file
DamagedKinds == {"absent", "notJson", "noMatch"}

\* mutant: a load that keeps the entries of a file that fails the schema
loadRegistrySalvaging(file, workflows) ==
    IF file.kind \in {"valid", "noMatch"} THEN workflows ELSE <<>>

\* loadRegistry lines 42-54: `{ workflows: [] }` when the file does not exist
\* and when readJson or RegistrySchema.parse throws
loadRegistry(file, workflows) ==
    IF file.kind = "valid" THEN workflows ELSE <<>>

\* the file is removed, overwritten with text that is no JSON, or edited so
\* that it no longer matches the schema
FileDamaged(kind) ==
    /\ rfile.kind = "valid"
    /\ rfile' = [kind |-> kind, op |-> "none", was |-> rfile.kind, result |-> <<>>]
    /\ registry' = IF kind = "noMatch" THEN registry ELSE <<>>
    /\ UNCHANGED outsideRegistryFile

\* getAllEntries and the other readers: loadRegistry
FileLoad ==
    /\ rfile' = [rfile EXCEPT !.op = "load", !.was = rfile.kind,
                              !.result = loadRegistry(rfile, registry)]
    /\ UNCHANGED registry
    /\ UNCHANGED outsideRegistryFile

\* upsertRegistryEntry lines 67-86 on the file as it is: load, change, save
FileUpsert(entry) ==
    LET loaded == loadRegistry(rfile, registry)
    IN  /\ FindIndex(loaded, entry.slug, entry.projectPath) > 0
             \/ Len(loaded) < MaxEntries
        /\ registry' = UpsertEntry(loaded, entry, getISOTimestamp)
        /\ rfile' = [kind |-> "valid", op |-> "upsert", was |-> rfile.kind,
                     result |-> <<entry>>]
        /\ UNCHANGED outsideRegistryFile

InitRegistryFile == InitRegistry

RegistryDamaged == \E kind \in DamagedKinds : FileDamaged(kind)
RegistryFileUpsert == \E entry \in UpsertInputs : FileUpsert(entry)

NextRegistryFile ==
    \/ RegistryDamaged
    \/ FileLoad
    \/ RegistryFileUpsert

SpecRegistryFile == InitRegistryFile /\ [][NextRegistryFile]_vars

\* C21: loadRegistry of a registry file that is absent, is not JSON or does
\* not match the schema returns the empty registry, and an upsert made on such
\* a file leaves a registry that holds the upserted entry and nothing else.
C21_DamagedRegistryLoadsEmpty ==
    /\ (rfile.op = "load" /\ rfile.was \in DamagedKinds) => rfile.result = <<>>
    /\ (rfile.op = "upsert" /\ rfile.was \in DamagedKinds) =>
          /\ rfile.kind = "valid"
          /\ Len(registry) = 1
          /\ HoldsFields(registry[1], rfile.result[1])

\* an upsert on a file that holds entries and no longer matches the schema
C21_Witness ==
    /\ rfile.op = "upsert"
    /\ rfile.was = "noMatch"
    /\ Len(registry) = 1
    /\ registry[1].slug = "b"

\* a load of a file that is not JSON
C21_LoadedDamaged ==
    /\ rfile.op = "load"
    /\ rfile.was = "notJson"
    /\ rfile.result = <<>>

(* ------------------------------------------------------------------ *)
(* utils/time.ts: parseCron                                            *)
(* ------------------------------------------------------------------ *)
outsideCron == <<registry, call, remote, nextId, remoteTags, lw, tg,
                 manifests, workflowFiles, archived, auth, cli, lastOn,
                 firstUnits, rfile, tpl, web, race, arc>>

MaxCount == 5   \* the largest `count` a caller passes (5 is the default)

\* the expressions cron-parser accepts, with the minutes between two runs:
\* time is counted in minutes, and an expression with step k runs at the
\* minutes that are multiples of k
EveryMinutes ==
    [e \in {"* * * * *", "*/2 * * * *", "*/3 * * * *", "*/5 * * * *", DefaultCron} |->
        CASE e = "* * * * *" -> 1
          [] e = "*/2 * * * *" -> 2
          [] e = "*/3 * * * *" -> 3
          [] e = "*/5 * * * *" -> 5
          [] OTHER -> 60]
ValidCrons == DOMAIN EveryMinutes
\* expressions on which cronParser.parseExpression throws
MalformedCrons == {"60 * * * *", "not a cron", "invalid cron"}
CronInputs == ValidCrons \cup MalformedCrons

\* cronParser.parseExpression(expression, { tz, currentDate }): an iterator
\* positioned at currentDate, or an Error thrown
parseExpression(expression, currentDate) ==
    IF expression \in ValidCrons
    THEN [thrown |-> FALSE, step |-> EveryMinutes[expression],
          current |-> currentDate, message |-> NoValue]
    ELSE [thrown |-> TRUE, step |-> 0, current |-> currentDate,
          message |-> "Invalid cron expression"]

\* interval.next(): the first run strictly after the iterator's position
NextDate(interval) == ((interval.current \div interval.step) + 1) * interval.step

\* lines 39-42: `for (let i = 0; i < count; i++) nextRuns.push(interval.next())`
RECURSIVE NextRuns(_, _)
NextRuns(interval, count) ==
    IF count <= 0 THEN <<>>
    ELSE LET date == NextDate(interval)
         IN  <<date>> \o NextRuns([interval EXCEPT !.current = date], count - 1)

\* mutant: parseCron that always computes the default five runs
parseCronDefaultCount(expression, count, currentDate) ==
    LET interval == parseExpression(expression, currentDate)
    IN  IF interval.thrown
        THEN [expression |-> expression, isValid |-> FALSE, nextRuns |-> <<>>,
              error |-> interval.message]
        ELSE [expression |-> expression, isValid |-> TRUE,
              nextRuns |-> NextRuns(interval, 5), error |-> NoValue]

\* parseCron lines 28-57, called at the time currentDate
parseCron(expression, count, currentDate) ==
    LET interval == parseExpression(expression, currentDate)
    IN  IF interval.thrown
        THEN [expression |-> expression, isValid |-> FALSE, nextRuns |-> <<>>,
              error |-> interval.message]
        ELSE [expression |-> expression, isValid |-> TRUE,
              nextRuns |-> NextRuns(interval, count), error |-> NoValue]

\* cron validate, the previews of new and edit: parseCron(expression, tz, count)
ParseCron(expression, count) ==
    /\ parsed' = [op |-> "parse", expression |-> expression, count |-> count,
                at |-> now, result |-> parseCron(expression, count, now)]
    /\ UNCHANGED now
    /\ UNCHANGED outsideCron

CronTick ==
    /\ now < MaxClock
    /\ now' = now + 1
    /\ UNCHANGED parsed
    /\ UNCHANGED outsideCron

InitCron == InitRegistry

CronParsed == \E expression \in CronInputs, count \in 0..MaxCount :
                  ParseCron(expression, count)

NextCron ==
    \/ CronTick
    \/ CronParsed

SpecCron == InitCron /\ [][NextCron]_vars

\* C23: parseCron always returns: for a valid expression isValid is true,
\* there are exactly `count` next runs, each after the time of the call and
\* each after the one before it, and there is no error; for a malformed
\* expression isValid is false, there are no next runs and the error is a
\* non-empty string.
C23_ParseCronResult ==
    parsed.op = "parse" =>
        LET r == parsed.result
        IN  /\ parsed.expression \in ValidCrons =>
                  /\ r.isValid
                  /\ Len(r.nextRuns) = parsed.count
                  /\ \A i \in 1..Len(r.nextRuns) : r.nextRuns[i] > parsed.at
                  /\ \A i \in 1..(Len(r.nextRuns) - 1) :
                         r.nextRuns[i] < r.nextRuns[i + 1]
                  /\ r.error = NoValue
            /\ parsed.expression \in MalformedCrons =>
                  /\ ~r.isValid
                  /\ r.nextRuns = <<>>
                  /\ r.error \notin {NoValue, ""}

\* three runs of an expression that runs every second minute, asked at a
\* minute at which it runs
C23_Witness ==
    /\ parsed.op = "parse"
    /\ parsed.expression = "*/2 * * * *"
    /\ parsed.at = 2
    /\ parsed.result.nextRuns = <<4, 6, 8>>

\* a malformed expression, reported and not thrown
C23_MalformedReported ==
    /\ parsed.op = "parse"
    /\ parsed.expression = "60 * * * *"
    /\ ~parsed.result.isValid

(* ------------------------------------------------------------------ *)
(* workflows/templates.ts and discover.ts isCronNode                   *)
(* ------------------------------------------------------------------ *)
outsideTemplate == <<now, registry, call, remote, nextId, remoteTags, lw, tg,
                     manifests, workflowFiles, archived, auth, cli, lastOn,
                     firstUnits, rfile, parsed, web, race, arc>>

\* a node type: the package prefix and then the name, letter by letter
NodeType(name) == <<"n8n-nodes-base.">> \o name

CRON_NODE_TYPES ==
    {NodeType(<<"c", "r", "o", "n">>),
     NodeType(<<"s", "c", "h", "e", "d", "u", "l", "e",
                "T", "r", "i", "g", "g", "e", "r">>),
     NodeType(<<"s", "c", "h", "e", "d", "u", "l", "e">>)}

\* String.prototype.toLowerCase on the letters of the node types
LowerCased(str) ==
    [i \in 1..Len(str) |->
        CASE str[i] = "T" -> "t"
          [] str[i] = "O" -> "o"
          [] str[i] = "C" -> "c"
          [] str[i] = "R" -> "r"
          [] OTHER -> str[i]]

\* String.prototype.includes
Includes(str, sub) ==
    \E i \in 0..(Len(str) - Len(sub)) : SubSeq(str, i + 1, i + Len(sub)) = sub

\* discover.ts isCronNode lines 38-43
isCronNode(node) ==
    \E type \in CRON_NODE_TYPES :
        \/ Includes(LowerCased(node.type), LowerCased(type))
        \/ Includes(LowerCased(type), LowerCased(node.type))

\* parameters in which the code finds neither an expression nor a timezone
PlainParameters(options) ==
    MakeNode("none", NoValue, IF options THEN "options" ELSE "none", NoValue)

\* createCronNode as a node: type and parameters
CronTriggerNode(cronExpression, timezone) ==
    [name |-> "Schedule Trigger",
     type |-> NodeType(<<"s", "c", "h", "e", "d", "u", "l", "e",
                         "T", "r", "i", "g", "g", "e", "r">>),
     parameters |-> createCronNode(cronExpression, timezone)]

\* createNoOpNode, createExecuteCommandNode, createHttpRequestNode,
\* createWebhookCallNode: the node each template puts after the trigger
ActionNode(template) ==
    CASE template = "cron-only" ->
             [name |-> "No Operation",
              type |-> NodeType(<<"n", "o", "O", "p">>),
              parameters |-> PlainParameters(FALSE)]
      [] template = "shell-command" ->
             [name |-> "Execute Command",
              type |-> NodeType(<<"e", "x", "e", "c", "u", "t", "e",
                                  "C", "o", "m", "m", "a", "n", "d">>),
              parameters |-> PlainParameters(FALSE)]
      [] template = "http-request" ->
             [name |-> "HTTP Request",
              type |-> NodeType(<<"h", "t", "t", "p",
                                  "R", "e", "q", "u", "e", "s", "t">>),
              parameters |-> PlainParameters(TRUE)]
      [] template = "webhook-call" ->
             [name |-> "Webhook Call",
              type |-> NodeType(<<"h", "t", "t", "p",
                                  "R", "e", "q", "u", "e", "s", "t">>),
              parameters |-> PlainParameters(TRUE)]

TemplateNames == {"cron-only", "shell-command", "http-request", "webhook-call"}

\* TEMPLATES[template].create(workflowName, cronExpression, timezone)
TemplateCreate(template, workflowName, cronExpression, timezone) ==
    [name |-> workflowName,
     active |-> FALSE,
     nodes |-> <<CronTriggerNode(cronExpression, timezone), ActionNode(template)>>]

\* some of getTimezoneOptions
TimezoneOptions == {"Europe/Istanbul", "Europe/London", "America/New_York", "UTC"}
WorkflowNames == {"Daily Backup", "Report"}

\* getTemplate(template).create(...) as cron new and POST /api/workflows call it
MakeWorkflow(template, workflowName, cronExpression, timezone) ==
    /\ tpl' = [made |-> TRUE, template |-> template,
               cronExpression |-> cronExpression, timezone |-> timezone,
               workflow |-> TemplateCreate(template, workflowName,
                                           cronExpression, timezone)]
    /\ UNCHANGED outsideTemplate

InitTemplate == InitRegistry

TemplateUsed ==
    \E template \in TemplateNames, workflowName \in WorkflowNames,
       cronExpression \in ValidCrons, timezone \in TimezoneOptions :
        MakeWorkflow(template, workflowName, cronExpression, timezone)

NextTemplate == TemplateUsed

SpecTemplate == InitTemplate /\ [][NextTemplate]_vars

\* the positions of the cron trigger nodes of a workflow
CronNodesOf(workflow) ==
    {i \in 1..Len(workflow.nodes) : isCronNode(workflow.nodes[i])}

\* C22: a workflow made from any of the four templates with a valid cron
\* expression and a timezone is inactive and has exactly two nodes, exactly
\* one of which is a cron trigger node; that node holds the expression in the
\* rule/interval shape only, and extractCronExpression and extractTimezone
\* read the given expression and timezone from it.
C22_TemplateWorkflowShape ==
    tpl.made =>
        /\ ~tpl.workflow.active
        /\ Len(tpl.workflow.nodes) = 2
        /\ Cardinality(CronNodesOf(tpl.workflow)) = 1
        /\ \A i \in CronNodesOf(tpl.workflow) :
              LET parameters == tpl.workflow.nodes[i].parameters
              IN  /\ parameters.rule # NoValue
                  /\ parameters.cronExpression = NoValue
                  /\ parameters.triggerTimes = NoValue
                  /\ extractCronExpression(parameters) = tpl.cronExpression
                  /\ extractTimezone(parameters) = tpl.timezone

\* a webhook-call workflow: its HTTP node has options, and is no cron node
C22_Witness ==
    /\ tpl.made
    /\ tpl.template = "webhook-call"
    /\ tpl.cronExpression = "*/2 * * * *"
    /\ tpl.timezone = "UTC"
    /\ CronNodesOf(tpl.workflow) = {1}
    /\ tpl.workflow.nodes[2].parameters.options

(* ------------------------------------------------------------------ *)
(* utils/slug.ts: createSlug applied to its own result                 *)
(* ------------------------------------------------------------------ *)
\* [A-Za-z0-9]
IsAlphanumeric(c) == c \in {"a", "A", "1"}

HasAlphanumeric(str) == \E i \in 1..Len(str) : IsAlphanumeric(str[i])

\* C24: for every name x, createSlug(createSlug(x)) = createSlug(x), and when
\* x holds at least one letter or digit createSlug(x) satisfies isValidSlug.
\* Checked on the slug the web UI's create makes of the name, createSlug(x).
C24_CreateSlugIdempotent ==
    sl.by = "uiCreate" =>
        /\ sl.slug = createSlug(sl.name)
        /\ createSlug(sl.slug) = sl.slug
        /\ HasAlphanumeric(sl.name) => isValidSlug(sl.slug)

\* a name whose slug needed lower-casing, a hyphen for the underscore, and
\* no hyphen for the space at its end
C24_Witness ==
    /\ sl.by = "uiCreate"
    /\ sl.name = <<"A", "_", " ">>
    /\ sl.slug = <<"a">>

\* the same for every name, written or not
CreateSlugIdempotentOnNames ==
    /\ createSlug(createSlug(sl.name)) = createSlug(sl.name)
    /\ HasAlphanumeric(sl.name) => isValidSlug(createSlug(sl.name))

(* ------------------------------------------------------------------ *)
(* ui/server.ts: POST /api/workflows, one await at a time              *)
(* ------------------------------------------------------------------ *)
outsideWebCreate == <<now, call, remote, nextId, remoteTags, lw, tg,
                      archived, auth, cli, lastOn,
                      firstUnits, rfile, parsed, tpl, race, arc>>

MaxCreates == 2  \* the create requests the server receives

\* a request that came in: the slug of its name, and how far its handler is
Received(slug) == [slug |-> slug, pc |-> "exists", status |-> 0]

\* the server accepts a connection and calls the handler, which runs up to
\* its first await, `await manifestExists(slug, basePath)` (line 200); the
\* cron expression is valid
WebReceive(slug) ==
    /\ Len(web) < MaxCreates
    /\ web' = Append(web, Received(slug))
    /\ UNCHANGED <<manifests, workflowFiles, registry>>
    /\ UNCHANGED outsideWebCreate

\* lines 200-220: manifestExists answers; 400 when the manifest is there,
\* else the handler goes on to `await writeJson(workflowPath, workflow)`
WebExists(r) ==
    /\ web[r].pc = "exists"
    /\ web' = IF manifestExists(web[r].slug)
              THEN [web EXCEPT ![r].pc = "done", ![r].status = 400]
              ELSE [web EXCEPT ![r].pc = "writeJson"]
    /\ UNCHANGED <<manifests, workflowFiles, registry>>
    /\ UNCHANGED outsideWebCreate

\* line 220: the workflow file is written
WebWriteJson(r) ==
    /\ web[r].pc = "writeJson"
    /\ workflowFiles' = workflowFiles \cup {web[r].slug}
    /\ web' = [web EXCEPT ![r].pc = "saveManifest"]
    /\ UNCHANGED <<manifests, registry>>
    /\ UNCHANGED outsideWebCreate

\* line 221: the manifest is written
WebSaveManifest(r) ==
    /\ web[r].pc = "saveManifest"
    /\ manifests' = SaveManifest(manifests,
                                 createManifest(web[r].slug, getISOTimestamp))
    /\ web' = [web EXCEPT ![r].pc = "upsert"]
    /\ UNCHANGED <<workflowFiles, registry>>
    /\ UNCHANGED outsideWebCreate

\* lines 224-230: the registry entry is upserted and the handler returns
\* success
WebUpsert(r) ==
    /\ web[r].pc = "upsert"
    /\ registry' = UpsertEntry(registry,
                               [slug |-> web[r].slug, projectPath |-> Project,
                                manifestPath |-> getManifestPath(web[r].slug, Project),
                                workflowId |-> NoId],
                               getISOTimestamp)
    /\ web' = [web EXCEPT ![r].pc = "done", ![r].status = 200]
    /\ UNCHANGED <<manifests, workflowFiles>>
    /\ UNCHANGED outsideWebCreate

InitWebCreate == InitRegistry

WebRequest == \E slug \in Slugs : WebReceive(slug)
WebAnswersExists == \E r \in 1..Len(web) : WebExists(r)
WebWritesWorkflow == \E r \in 1..Len(web) : WebWriteJson(r)
WebWritesManifest == \E r \in 1..Len(web) : WebSaveManifest(r)
WebRegisters == \E r \in 1..Len(web) : WebUpsert(r)

NextWebCreate ==
    \/ WebRequest
    \/ WebAnswersExists
    \/ WebWritesWorkflow
    \/ WebWritesManifest
    \/ WebRegisters

SpecWebCreate == InitWebCreate /\ [][NextWebCreate]_vars

\* C25 as claimed: of two create requests for the same name at most one
\* succeeds; the other is rejected as already existing.
C25_OneCreatePerName ==
    \A r1, r2 \in 1..Len(web) :
        (r1 # r2 /\ web[r1].slug = web[r2].slug
            /\ web[r1].pc = "done" /\ web[r2].pc = "done")
        => ~(web[r1].status = 200 /\ web[r2].status = 200)

\* C25 as claimed, its first half: while one handler is between its first
\* await and its return no other handler takes a step.
C25_HandlersDoNotInterleave ==
    [][\A r1, r2 \in 1..Len(web) :
          (r1 # r2 /\ web[r1].pc \in {"writeJson", "saveManifest", "upsert"})
          => web'[r2] = web[r2]]_vars

\* what does hold: a request received after another one for the same name
\* has returned is rejected
LaterCreateRejected ==
    [][\A r \in 1..Len(web) :
          (web[r].pc = "exists" /\ web'[r].pc # "exists"
             /\ \E q \in 1..Len(web) :
                   /\ q # r /\ web[q].slug = web[r].slug
                   /\ web[q].pc \in {"upsert", "done"} /\ web[q].status # 400)
          => web'[r].status = 400]_vars

(* ------------------------------------------------------------------ *)
(* config/registry.ts: upsertRegistryEntry, its load and its save      *)
(* ------------------------------------------------------------------ *)
outsideRace == <<now, call, remote, nextId, remoteTags, lw, tg,
                 manifests, workflowFiles, archived, auth, cli, lastOn,
                 firstUnits, rfile, parsed, tpl, web, arc>>

\* line 68: `const registry = await loadRegistry()`; the caller now holds a
\* copy of the file's array
UpsertLoad(p, entry) ==
    /\ race[p].pc = "idle"
    /\ race' = [race EXCEPT ![p] = [pc |-> "loaded", entry |-> entry,
                                    loaded |-> registry]]
    /\ UNCHANGED registry
    /\ UNCHANGED outsideRace

\* mutant: a save that applies the change to the file as it is now
SavedRegistryMerging(onDisk, loaded, entry, ts) == UpsertEntry(onDisk, entry, ts)

\* lines 70-85: the change is made to the caller's copy, and saveRegistry
\* overwrites the file with it
SavedRegistry(onDisk, loaded, entry, ts) == UpsertEntry(loaded, entry, ts)

UpsertSave(p) ==
    /\ race[p].pc = "loaded"
    /\ registry' = SavedRegistry(registry, race[p].loaded, race[p].entry,
                                 getISOTimestamp)
    /\ race' = [race EXCEPT ![p].pc = "done"]
    /\ UNCHANGED outsideRace

InitRace == InitRegistry

CallerLoads == \E p \in Callers, entry \in UpsertInputs : UpsertLoad(p, entry)
CallerSaves == \E p \in Callers : UpsertSave(p)

NextRace ==
    \/ CallerLoads
    \/ CallerSaves

SpecRace == InitRace /\ [][NextRace]_vars

\* both calls are complete, they were for different identities, and each
\* loaded the registry before the other saved
Raced ==
    /\ \A p \in Callers : race[p].pc = "done"
    /\ ~SameIdentity(race[1].entry, race[2].entry.slug, race[2].entry.projectPath)
    /\ ~HasIdentity(race[1].loaded, race[2].entry.slug, race[2].entry.projectPath)
    /\ ~HasIdentity(race[2].loaded, race[1].entry.slug, race[1].entry.projectPath)

\* C26: when two upsertRegistryEntry calls for different identities have
\* both loaded before either saved, both complete and the registry is left
\* with the entry of one of them only: the later save overwrites the earlier.
C26_LastWriteWins ==
    Raced =>
        /\ Len(registry) = 1
        /\ HasIdentity(registry, race[1].entry.slug, race[1].entry.projectPath)
              # HasIdentity(registry, race[2].entry.slug, race[2].entry.projectPath)

\* the calls for a/p and b/p raced, and the entry of a/p is lost
C26_Witness ==
    /\ Raced
    /\ race[1].entry.slug = "a" /\ race[1].entry.projectPath = "/p"
    /\ race[2].entry.slug = "b"
    /\ ~HasIdentity(registry, "a", "/p")
    /\ HasIdentity(registry, "b", "/p")

\* calls that do not overlap keep both entries
C26_SequentialKeepsBoth ==
    /\ \A p \in Callers : race[p].pc = "done"
    /\ Len(registry) = 2

(* ------------------------------------------------------------------ *)
(* commands/cron.archive.ts: archiveAction, one await at a time        *)
(* ------------------------------------------------------------------ *)
outsideArchive == <<now, call, nextId, remoteTags, lw, tg, auth, cli, lastOn,
                    firstUnits, rfile, parsed, tpl, web, race>>

\* mutant: the original manifest is deleted before the copy is written
ArchiveStepAfterDeleteFirst(step, keepLocal) ==
    CASE step = "remote" -> IF keepLocal THEN "done" ELSE "moveWorkflow"
      [] step = "moveWorkflow" -> "deleteOriginal"
      [] step = "deleteOriginal" -> "writeArchive"
      [] step = "writeArchive" -> "registry"
      [] step = "registry" -> "done"

\* archiveAction lines 66-120: the order of its steps
ArchiveStepAfter(step, keepLocal) ==
    CASE step = "remote" -> IF keepLocal THEN "done" ELSE "moveWorkflow"
      [] step = "moveWorkflow" -> "writeArchive"
      [] step = "writeArchive" -> "deleteOriginal"
      [] step = "deleteOriginal" -> "registry"
      [] step = "registry" -> "done"

ArchiveQuiet == arc.pc \in {"idle", "done", "crashed"}

\* lines 29-65: the manifest exists and is loaded, the archive is confirmed
\* or forced, and getClient finds credentials
ArchiveStart(slug, deleteRemote, keepLocal) ==
    /\ ArchiveQuiet
    /\ manifestExists(slug)
    /\ auth
    /\ arc' = [pc |-> "remote", slug |-> slug, deleteRemote |-> deleteRemote,
               keepLocal |-> keepLocal,
               manifest |-> ManifestSchemaParse(manifests[slug])]
    /\ UNCHANGED <<registry, remote, manifests, workflowFiles, archived>>
    /\ UNCHANGED outsideArchive

\* lines 66-85: deleteWorkflow or deactivateWorkflow when the manifest is
\* deployed; an error of the request is only warned about
ArchiveRemote ==
    /\ arc.pc = "remote"
    /\ LET id == arc.manifest.lastDeployedWorkflowId
       IN  IF Truthy(id)
           THEN \E requestOk \in BOOLEAN :
                   remote' = RemoteAfterArchive(remote, id, arc.deleteRemote, requestOk)
           ELSE UNCHANGED remote
    /\ arc' = [arc EXCEPT !.pc = ArchiveStepAfter("remote", arc.keepLocal)]
    /\ UNCHANGED <<registry, manifests, workflowFiles, archived>>
    /\ UNCHANGED outsideArchive

\* lines 96-100: the workflow file is moved when it exists
ArchiveMoveWorkflow ==
    /\ arc.pc = "moveWorkflow"
    /\ workflowFiles' = workflowFiles \ {arc.slug}
    /\ arc' = [arc EXCEPT !.pc = ArchiveStepAfter("moveWorkflow", arc.keepLocal)]
    /\ UNCHANGED <<registry, remote, manifests, archived>>
    /\ UNCHANGED outsideArchive

\* lines 102-108: the loaded manifest with the archive fields is written to
\* archived/
ArchiveWriteCopy ==
    /\ arc.pc = "writeArchive"
    /\ archived' = WriteArchived(archived, arc.manifest, getISOTimestamp)
    /\ arc' = [arc EXCEPT !.pc = ArchiveStepAfter("writeArchive", arc.keepLocal)]
    /\ UNCHANGED <<registry, remote, manifests, workflowFiles>>
    /\ UNCHANGED outsideArchive

\* lines 110-114: the original manifest is deleted when it exists
ArchiveDeleteOriginal ==
    /\ arc.pc = "deleteOriginal"
    /\ manifests' = IF manifestExists(arc.slug)
                    THEN DeleteManifest(manifests, arc.slug)
                    ELSE manifests
    /\ arc' = [arc EXCEPT !.pc = ArchiveStepAfter("deleteOriginal", arc.keepLocal)]
    /\ UNCHANGED <<registry, remote, workflowFiles, archived>>
    /\ UNCHANGED outsideArchive

\* lines 117-119: removeRegistryEntry
ArchiveRegistry ==
    /\ arc.pc = "registry"
    /\ registry' = RemoveEntry(registry, arc.slug, Project)
    /\ arc' = [arc EXCEPT !.pc = ArchiveStepAfter("registry", arc.keepLocal)]
    /\ UNCHANGED <<remote, manifests, workflowFiles, archived>>
    /\ UNCHANGED outsideArchive

\* the process is killed, or a step throws and handleError exits, between
\* two steps
ArchiveCrash ==
    /\ ~ArchiveQuiet
    /\ arc' = [arc EXCEPT !.pc = "crashed"]
    /\ UNCHANGED <<registry, remote, manifests, workflowFiles, archived>>
    /\ UNCHANGED outsideArchive

InitArchive == InitRegistry

ArchiveBegins ==
    \E slug \in ProjectSlugs, deleteRemote \in BOOLEAN, keepLocal \in BOOLEAN :
        ArchiveStart(slug, deleteRemote, keepLocal)

\* between two archives: login, create and deploy through the web UI
ArchiveLogin == ArchiveQuiet /\ Login
ArchiveCreate == ArchiveQuiet /\ Create
ArchiveDeploy == ArchiveQuiet /\ WebDeploy

NextArchive ==
    \/ ArchiveLogin
    \/ ArchiveCreate
    \/ ArchiveDeploy
    \/ ArchiveBegins
    \/ ArchiveRemote
    \/ ArchiveMoveWorkflow
    \/ ArchiveWriteCopy
    \/ ArchiveDeleteOriginal
    \/ ArchiveRegistry
    \/ ArchiveCrash

SpecArchive == InitArchive /\ [][NextArchive]_vars

\* an archived copy of the manifest of `slug` is in workflows/archived/
HasArchivedCopy(files, slug) == \E k \in DOMAIN files : k[1] = slug

\* C27: in cron archive the archived copy of the manifest is written before
\* the original is deleted, and the registry entry is removed only after
\* both; so from the start of the command on, whether it completes or stops
\* between two steps, the manifest is in workflows/ or in workflows/archived/.
C27_ArchiveKeepsManifest ==
    /\ [](arc.pc # "idle" =>
             manifestExists(arc.slug) \/ HasArchivedCopy(archived, arc.slug))
    /\ [][~ArchiveQuiet =>
             /\ (manifestExists(arc.slug) /\ ~manifestExists(arc.slug)')
                   => HasArchivedCopy(archived, arc.slug)
             /\ (HasIdentity(registry, arc.slug, Project)
                    /\ ~HasIdentity(registry', arc.slug, Project))
                   => (~manifestExists(arc.slug)
                          /\ HasArchivedCopy(archived, arc.slug))]_vars

\* a crash after the copy was written and before the original was deleted:
\* both are there, and so is the registry entry
C27_Witness ==
    /\ arc.pc = "crashed"
    /\ manifestExists(arc.slug)
    /\ HasArchivedCopy(archived, arc.slug)
    /\ HasIdentity(registry, arc.slug, Project)

\* an archive that completed: the copy only, and no registry entry
C27_Completed ==
    /\ arc.pc = "done"
    /\ ~arc.keepLocal
    /\ ~manifestExists(arc.slug)
    /\ HasArchivedCopy(archived, arc.slug)
    /\ ~HasIdentity(registry, arc.slug, Project)

(* ------------------------------------------------------------------ *)
(* commands/cron.deploy.ts: a deploy that is run again                 *)
(* ------------------------------------------------------------------ *)
\* C28 as claimed, for two CLI deploys of a slug that follow each other: when
\* the earlier one, failed or not, got a workflow from the server, the later
\* one does not create another.
C28_RetryCreatesNoSecond ==
    [][(/\ cli.pc = "push"
        /\ cli'.pc # "failed"
        /\ cli'.kind = "create"
        /\ lastOn.op = "cliDeploy"
        /\ lastOn.slug = cli.slug)
       => lastOn.id = NoId]_vars

\* what does hold: a deploy that follows a deploy of the slug that completed
\* creates nothing
DeployAfterCompleteCreatesNone ==
    [][(/\ cli.pc = "push"
        /\ cli'.pc # "failed"
        /\ lastOn.op = "cliDeploy"
        /\ lastOn.slug = cli.slug
        /\ lastOn.ok)
       => (cli'.kind = "update" /\ remote' = remote)]_vars

(* ------------------------------------------------------------------ *)
(* The cron expression on its way into the local files                 *)
(* ------------------------------------------------------------------ *)
\* `parseCron(cronExpression, timezone).isValid`
IsValidCron(cronExpression) == parseCron(cronExpression, 5, now).isValid

\* newAction lines 116-132 with --cron, and POST /api/workflows lines
\* 191-195: an expression that parseCron reports invalid ends the command or
\* the request; lines 57-66, the prompt for a custom expression, accepts
\* only a valid one, and the presets are valid
CheckedCreate(cronExpression, timezone) ==
    /\ IsValidCron(cronExpression)
    /\ SchedCreate(cronExpression, timezone)

\* editAction lines 93-99 and 199-210 with --cron and/or --timezone: the
\* options are applied as given
EditWithFlags(newCron, newTimezone) == SchedEditCli(newCron, newTimezone)

\* editAction lines 99-186, the menu: a preset, or a custom expression that
\* the prompt's validate accepts
EditWithPrompts(newCron, newTimezone) ==
    /\ Given(newCron) => IsValidCron(newCron)
    /\ SchedEditCli(newCron, newTimezone)

\* PUT /api/workflows/:slug lines 261-268: a given expression that parseCron
\* reports invalid is answered with 400
CheckedUiUpdate(cronExpression, timezone) ==
    /\ Given(cronExpression) => IsValidCron(cronExpression)
    /\ SchedEditUi(cronExpression, timezone)

\* the workflows that are imported carry valid expressions
InitCronInput == InitRegistry

CronOptions == CronInputs \cup {NoValue}
TimezoneGiven == Timezones \cup {NoValue}

NewChecked == \E c \in CronInputs, z \in Timezones : CheckedCreate(c, z)
EditFlags == \E c \in CronOptions, z \in TimezoneGiven : EditWithFlags(c, z)
EditPrompts == \E c \in CronOptions, z \in TimezoneGiven : EditWithPrompts(c, z)
WebUpdateChecked == \E c \in CronOptions, z \in TimezoneGiven : CheckedUiUpdate(c, z)

NextCronInput ==
    \/ NewChecked
    \/ ImportSchedule
    \/ EditPrompts
    \/ WebUpdateChecked
    \/ EditFlags

SpecCronInput == InitCronInput /\ [][NextCronInput]_vars

\* C29 as claimed: whatever was created, imported and edited, through the
\* CLI or the web UI, the cron expression of the manifest and the one of the
\* workflow file's trigger node are expressions that parseCron reports valid.
C29_StoredCronIsValid ==
    sched.exists =>
        /\ IsValidCron(sched.manifest.cronExpression)
        /\ Filled(extractCronExpression(sched.node))
              => IsValidCron(extractCronExpression(sched.node))

\* what does hold: a step that stores an invalid expression is an edit
StoredInvalidOnlyByEdit ==
    [][(C29_StoredCronIsValid /\ ~C29_StoredCronIsValid') => sched'.by = "edit"]_vars

(* ------------------------------------------------------------------ *)
(* The registry and the manifests of one project                       *)
(* ------------------------------------------------------------------ *)
\* mutant: cron new writes the two files and registers nothing
RegistryAfterNewUnregistered(workflows, slug, ts) == workflows

\* newAction lines 183-187: upsertRegistryEntry of the new slug under the
\* working directory
RegistryAfterNew(workflows, slug, ts) ==
    UpsertEntry(workflows,
                [slug |-> slug, projectPath |-> Project,
                 manifestPath |-> getManifestPath(slug, Project),
                 workflowId |-> NoId],
                ts)

\* newAction lines 174-187: the workflow file, the manifest, the registry
NewWrites(slug) ==
    /\ workflowFiles' = workflowFiles \cup {slug}
    /\ manifests' = SaveManifest(manifests, createManifest(slug, getISOTimestamp))
    /\ registry' = RegistryAfterNew(registry, slug, getISOTimestamp)
    /\ lastOn' = Finished(slug, "cliNew", TRUE, NoId, FALSE)

\* newAction lines 134-187 for a name whose slug is `slug`: a slug that has a
\* manifest is replaced by the one typed at the prompt, which is refused while
\* it is invalid or has a manifest too; no answer cancels the command
newAction(slug, typed) ==
    /\ cli.pc = "idle"
    /\ IF manifestExists(slug)
       THEN IF typed = NoValue
            THEN UNCHANGED <<workflowFiles, manifests, registry, lastOn>>
            ELSE /\ isValidSlug(SlugText(typed))
                 /\ ~manifestExists(typed)
                 /\ NewWrites(typed)
       ELSE /\ typed = NoValue
            /\ NewWrites(slug)
    /\ UNCHANGED <<now, remote, nextId, remoteTags, archived, auth, cli>>
    /\ UNCHANGED outsideProject

\* editAction lines 62-247 and PUT /api/workflows/:slug lines 242-309 with a
\* change: the manifest is loaded, stamped and saved again, the workflow file
\* rewritten; the registry is not touched
EditSaves(slug) ==
    /\ cli.pc = "idle"
    /\ manifestExists(slug)
    /\ slug \in workflowFiles
    /\ manifests' = SaveManifest(manifests,
                       [ManifestSchemaParse(manifests[slug]) EXCEPT
                           !.updatedAt = getISOTimestamp])
    /\ lastOn' = Finished(slug, "edit", TRUE, NoId, FALSE)
    /\ UNCHANGED <<now, registry, remote, nextId, remoteTags,
                   workflowFiles, archived, auth, cli>>
    /\ UNCHANGED outsideProject

\* importAction lines 294-410 run to "Workflow imported successfully!": the
\* workflow is on the server and is not managed (or --force is given), the
\* slug is the name's, or the one typed when that one is invalid or taken
ImportSaves(workflowId, force, slug, typed) ==
    /\ cli.pc = "idle"
    /\ auth
    /\ HasWorkflow(remote, workflowId)
    /\ force \/ ~isCron8nManaged(TagNamesOf(WorkflowById(remote, workflowId),
                                            remoteTags))
    /\ IF AsksForSlug(slug)
       THEN /\ typed # NoValue
            /\ ImportPromptAccepts(typed, force)
            /\ ImportWrites(workflowId, typed)
            /\ lastOn' = Finished(typed, "import", TRUE, workflowId, FALSE)
       ELSE /\ typed = NoValue
            /\ ImportWrites(workflowId, slug)
            /\ lastOn' = Finished(slug, "import", TRUE, workflowId, FALSE)
    /\ UNCHANGED <<now, remote, nextId, remoteTags, archived, auth, cli>>
    /\ UNCHANGED outsideProject

InitLifecycle == InitRegistry

LifecycleNew ==
    \E slug \in Slugs, typed \in Slugs \cup {NoValue} : newAction(slug, typed)
LifecycleEdit == \E slug \in Slugs : EditSaves(slug)
\* imports of the workflows the project deployed, under the slug the
\* deploys use: with a valid name, or an invalid one and the slug typed
LifecycleImport ==
    \E workflowId \in 1..MaxImportable, force \in BOOLEAN,
       slug \in ProjectSlugs \cup {"A!"}, typed \in ProjectSlugs \cup {NoValue} :
        ImportSaves(workflowId, force, slug, typed)
LifecycleCliArchive ==
    \E slug \in Slugs, keepLocal \in BOOLEAN :
        CliArchive(slug, FALSE, keepLocal)
LifecycleDeploy == \E slug \in ProjectSlugs : DeployStart(slug, FALSE, FALSE)
LifecycleWebArchive == \E slug \in Slugs : UiArchive(slug)

NextLifecycle ==
    \/ Login
    \/ Create
    \/ LifecycleNew
    \/ LifecycleImport
    \/ LifecycleEdit
    \/ LifecycleDeploy
    \/ DeployPush
    \/ DeployTags
    \/ DeployManifest
    \/ DeployRegistry
    \/ CliExit
    \/ WebDeploy
    \/ LifecycleCliArchive
    \/ LifecycleWebArchive

SpecLifecycle == InitLifecycle /\ [][NextLifecycle]_vars

\* C30: after any completed create, import, edit, deploy and archive
\* operations in one project, run one at a time from no workflows and an
\* empty registry, the registry has an entry for (slug, project) exactly when
\* the project's workflows directory has a manifest for that slug.
C30_RegistryMatchesManifests ==
    cli.pc = "idle" =>
        /\ \A slug \in ImportSlugs :
              HasIdentity(registry, slug, Project) <=> manifestExists(slug)
        /\ \A i \in 1..Len(registry) :
              registry[i].projectPath = Project => manifestExists(registry[i].slug)

\* one workflow was deployed and then archived, another was made by cron
\* new afterwards and is still there, alone in the registry
C30_Witness ==
    /\ cli.pc = "idle"
    /\ lastOn.op \in {"cliArchive", "uiArchive"}
    /\ lastOn.slug = "a"
    /\ ~manifestExists("a")
    /\ ~HasIdentity(registry, "a", Project)
    /\ lastOn.id # NoId
    /\ manifestExists("b")
    /\ HasIdentity(registry, "b", Project)
    /\ Len(registry) = 1
    /\ \E k \in DOMAIN archived : k[1] = "a"

\* an import has overwritten the manifest of a workflow that was there
LifecycleImportedOver ==
    /\ lastOn.op = "import"
    /\ lastOn.slug = "a"
    /\ manifests["a"].updatedAt = NoTime
    /\ Len(registry) = 2

====
